---- MODULE Spec2Model ----
(***************************************************************************)
(* A model of litesql_ha: the embedded replicas manager                    *)
(* (embedded_replicas.py), its background tasks, and the routing decision  *)
(* of HAConnection (ha_connection.py) on top of HAClient (ha_client.py).   *)
(*                                                                         *)
(* The program runs on one asyncio event loop: the code between two        *)
(* awaits runs without interruption, and tasks interleave only at awaits.  *)
(* Every action below is one such uninterrupted stretch of one task.       *)
(***************************************************************************)
EXTENDS Integers, Sequences, FiniteSets, TLC

\* ------------------------------------------------------------------ bounds
\* Calls of load() / close() made on the manager, each by a task of its own.
MaxCalls == 3
\* Sequence numbers range over 0..MaxSeq.
MaxSeq == 2
\* Messages one fetch returns in the model (the code asks for FetchBatch).
MaxBatch == 2
\* Replication messages delivered in total.
MaxMsgs == 2
\* Calls of load() in the specification of message delivery.
MaxLoads == 1

\* ------------------------------------------------------- program constants
FetchBatch == 10
MinFileSize == 100

\* Absent optional values: Python's None for an object reference is id 0,
\* an absent integer is -1.
NoId == 0
NoSeq == -1

Min(a, b) == IF a <= b THEN a ELSE b

\* ----------------------------------------------------------- environment
\* The replica directory, in os.listdir order.  header is what the first 16
\* bytes of the file are: "magic16" the exact 16-byte SQLite magic,
\* "magic15" its first 15 bytes followed by a byte that is not NUL, "other"
\* anything else.  opens: whether sqlite3.connect and the pragmas succeed.
Dir ==
  << [name |-> "a.db",  isFile |-> TRUE, size |-> 4096, header |-> "magic16", opens |-> TRUE],
     [name |-> "bad.db", isFile |-> TRUE, size |-> 4096, header |-> "magic16", opens |-> FALSE],
     [name |-> "b.db",  isFile |-> TRUE, size |-> 4096, header |-> "magic16", opens |-> TRUE],
     [name |-> "n.txt", isFile |-> TRUE, size |-> 4096, header |-> "other",   opens |-> TRUE],
     [name |-> "s.db",  isFile |-> TRUE, size |-> 64,   header |-> "magic16", opens |-> TRUE],
     [name |-> "m.db",  isFile |-> TRUE, size |-> 4096, header |-> "magic15", opens |-> FALSE] >>

FileNames == {Dir[i].name : i \in 1..Len(Dir)}

\* received_seq of the newest ha_stats row of each file when the program
\* starts; NoSeq: the table is absent or empty.
InitialStats == [n \in FileNames |-> IF n = "b.db" THEN 1 ELSE NoSeq]

\* ----------------------------------------------------------------- state
VARIABLES
  running,      \* EmbeddedReplicasManager._running
  replicas,     \* ._replicas: name -> [txseq, open]
  subs,         \* ._subscriptions, in insertion order: <<[name, sub]>>
  natsConn,     \* ._nats_conn: a connection id or NoId
  jetstream,    \* ._jetstream is set
  updateTask,   \* ._update_task: an update task id or NoId
  calls,        \* the tasks calling load() / close()
  loops,        \* the _process_messages tasks; loop i consumes subscription i
  utasks,       \* the update_loop tasks
  conns,        \* NATS connections: conns[i] iff connection i is open
  stats,        \* name -> newest persisted received_seq of the file, or NoSeq
  msgs,         \* replication messages delivered so far
  nCloses,      \* close() calls started so far
  readClosed    \* the refresh task read through a closed handle

mgrVars == <<running, replicas, subs, natsConn, jetstream, updateTask, calls,
             loops, utasks, conns, stats, msgs, nCloses, readClosed>>

\* The connection and its client (one connection).
VARIABLES
  cEmbedded,   \* HAConnection._embedded_replica: the file its handle is on, or "None"
  cManager,    \* HAConnection._replicas_manager is set
  cRepId,      \* HAClient._replication_id
  cTxseq,      \* HAClient._txseq
  cClosed,     \* HAConnection._closed
  lastRoute,   \* the last statement routed, and where it went
  lastCheck    \* the last direct call of is_replica_updated, and its result

routeVars == <<cEmbedded, cManager, cRepId, cTxseq, cClosed, lastRoute, lastCheck>>

\* The manager class, one call of the client, and one use of the wire codec.
VARIABLES
  mInstance,     \* EmbeddedReplicasManager._instance: an object id or NoId
  mInitialized,  \* ._initialized of that object
  mObjects,      \* objects made by super().__new__ so far
  lastAcq,       \* what the last acquisition returned, or NoId
  rpc,           \* the client's call in progress or last finished
  wire           \* the last use of the wire codec: its input and its output

extVars == <<mInstance, mInitialized, mObjects, lastAcq, rpc, wire>>

vars == <<mgrVars, routeVars, extVars>>

EmptyReg == [n \in {} |-> 0]

\* The state as one value, so that a handler's assignments compose.
M == [running |-> running, replicas |-> replicas, subs |-> subs,
      natsConn |-> natsConn, jetstream |-> jetstream, updateTask |-> updateTask,
      loops |-> loops, utasks |-> utasks, conns |-> conns, stats |-> stats,
      readClosed |-> readClosed]

Commit(m) ==
  /\ running' = m.running
  /\ replicas' = m.replicas
  /\ subs' = m.subs
  /\ natsConn' = m.natsConn
  /\ jetstream' = m.jetstream
  /\ updateTask' = m.updateTask
  /\ loops' = m.loops
  /\ utasks' = m.utasks
  /\ conns' = m.conns
  /\ stats' = m.stats
  /\ readClosed' = m.readClosed

\* A task calling load() or close(): where it stands (pc), load()'s place in
\* the directory (idx), close()'s iterator (used, pos), what it awaits
\* (target); and, of a close(): whether no load() has taken a step since it
\* started (clean), the update task it found (task), the handles it closed,
\* whether it changed the manager, and whether it started after a clean
\* close() had completed.
IdleCall == [kind |-> "none", pc |-> "idle", idx |-> 0, used |-> 0, pos |-> 0,
             target |-> NoId, clean |-> FALSE, task |-> NoId, closed |-> 0,
             changed |-> FALSE, after |-> FALSE]

MgrInit ==
  /\ running = FALSE
  /\ replicas = EmptyReg
  /\ subs = <<>>
  /\ natsConn = NoId
  /\ jetstream = FALSE
  /\ updateTask = NoId
  /\ calls = [c \in 1..MaxCalls |-> IdleCall]
  /\ loops = <<>>
  /\ utasks = <<>>
  /\ conns = <<>>
  /\ stats = InitialStats
  /\ msgs = 0
  /\ nCloses = 0
  /\ readClosed = FALSE

\* ------------------------------------------------------------------ load
\* _is_sqlite_file without the test of the size
IsSqliteFileAnySize(f) == f.header \in {"magic16", "magic15"}

\* _is_sqlite_file: header.startswith(b"SQLite format 3") compares 15 bytes.
IsSqliteFile(f) ==
  IF f.size < MinFileSize THEN FALSE
  ELSE f.header \in {"magic16", "magic15"}

\* The seed of a replica's txseq: the newest received_seq, 0 without one.
SeedTxseq(st, name) == IF st[name] = NoSeq THEN 0 ELSE st[name]

\* _start_txseq_updater without `if self._update_task is not None: return`
StartTxseqUpdaterAlways(m) ==
  [m EXCEPT !.running = TRUE,
            !.utasks = Append(@, [st |-> "new", cancel |-> FALSE]),
            !.updateTask = Len(m.utasks) + 1]

\* _start_txseq_updater: nothing when an update task is recorded; else the
\* running flag is set and a new task is created and recorded.
StartTxseqUpdater(m) ==
  IF m.updateTask # NoId THEN m
  ELSE [m EXCEPT !.running = TRUE,
                 !.utasks = Append(@, [st |-> "new", cancel |-> FALSE]),
                 !.updateTask = Len(m.utasks) + 1]

\* load()'s for loop with no try around a file: a failure to open one ends
\* the call.
RECURSIVE LoadScanAborts(_, _)
LoadScanAborts(m, i) ==
  IF i > Len(Dir) THEN [m |-> StartTxseqUpdater(m), pc |-> "done", idx |-> i]
  ELSE LET f == Dir[i] IN
    IF ~f.isFile \/ f.name \in DOMAIN m.replicas THEN LoadScanAborts(m, i + 1)
    ELSE IF ~IsSqliteFile(f) THEN LoadScanAborts(m, i + 1)
    ELSE IF ~f.opens THEN [m |-> m, pc |-> "raised", idx |-> i]
    ELSE LET m1 == [m EXCEPT !.replicas =
                       @ @@ (f.name :> [txseq |-> SeedTxseq(m.stats, f.name),
                                        open |-> TRUE])]
         IN IF ~m1.jetstream THEN LoadScanAborts(m1, i + 1)
            ELSE [m |-> m1, pc |-> "subscribe", idx |-> i]

\* load()'s for loop from Dir[i] on, up to its next await (pull_subscribe for
\* a file just registered) or to its end (_start_txseq_updater).
RECURSIVE LoadScan(_, _)
LoadScan(m, i) ==
  IF i > Len(Dir) THEN [m |-> StartTxseqUpdater(m), pc |-> "done", idx |-> i]
  ELSE LET f == Dir[i] IN
    IF ~f.isFile \/ f.name \in DOMAIN m.replicas THEN LoadScan(m, i + 1)
    ELSE IF ~IsSqliteFile(f) THEN LoadScan(m, i + 1)
    ELSE IF ~f.opens THEN LoadScan(m, i + 1)
    ELSE LET m1 == [m EXCEPT !.replicas =
                       @ @@ (f.name :> [txseq |-> SeedTxseq(m.stats, f.name),
                                        open |-> TRUE])]
         IN IF ~m1.jetstream THEN LoadScan(m1, i + 1)
            ELSE [m |-> m1, pc |-> "subscribe", idx |-> i]

CanStart(c) ==
  /\ calls[c].kind = "none"
  /\ IF c = 1 THEN TRUE ELSE calls[c - 1].kind # "none"

\* A load step spoils every close() that has started: it is no longer a
\* close() that ran without a load() beside it.
Spoil(cs) == [c \in DOMAIN cs |-> [cs[c] EXCEPT !.clean = FALSE]]

\* load() up to `await nats.connect(nats_url)`.
LoadStart(c) ==
  /\ UNCHANGED <<routeVars, extVars>>
  /\ CanStart(c)
  /\ calls' = [Spoil(calls) EXCEPT ![c] = [IdleCall EXCEPT !.kind = "load", !.pc = "connect"]]
  /\ UNCHANGED <<running, replicas, subs, natsConn, jetstream, updateTask,
                 loops, utasks, conns, stats, msgs, nCloses, readClosed>>

\* nats.connect returned: the connection and the JetStream context are
\* stored, and the directory scan runs to its first await.
LoadConnected(c) ==
  /\ UNCHANGED <<routeVars, extVars>>
  /\ calls[c].kind = "load" /\ calls[c].pc = "connect"
  /\ LET m0 == [M EXCEPT !.conns = Append(@, TRUE),
                         !.natsConn = Len(conns) + 1,
                         !.jetstream = TRUE]
         r == LoadScan(m0, 1)
     IN /\ Commit(r.m)
        /\ calls' = [Spoil(calls) EXCEPT ![c].pc = r.pc, ![c].idx = r.idx]
  /\ UNCHANGED <<msgs, nCloses>>

\* _subscribe_to_replication that lets the failure of pull_subscribe out:
\* load() ends there.
LoadSubscribedPropagates(c, ok) ==
  /\ UNCHANGED <<routeVars, extVars>>
  /\ calls[c].kind = "load" /\ calls[c].pc = "subscribe"
  /\ ~ok
  /\ calls' = [Spoil(calls) EXCEPT ![c].pc = "raised"]
  /\ UNCHANGED <<running, replicas, subs, natsConn, jetstream, updateTask,
                 loops, utasks, conns, stats, msgs, nCloses, readClosed>>

\* pull_subscribe returned (ok) or raised (~ok) for file Dir[idx]; then the
\* scan goes on with the next file.
LoadSubscribed(c, ok) ==
  /\ UNCHANGED <<routeVars, extVars>>
  /\ calls[c].kind = "load" /\ calls[c].pc = "subscribe"
  /\ LET name == Dir[calls[c].idx].name
         sub == Len(loops) + 1
         m0 == IF ok
               THEN [M EXCEPT
                       !.subs = IF \E k \in 1..Len(subs) : subs[k].name = name
                                THEN [k \in 1..Len(subs) |->
                                        IF subs[k].name = name
                                        THEN [name |-> name, sub |-> sub]
                                        ELSE subs[k]]
                                ELSE Append(subs, [name |-> name, sub |-> sub]),
                       !.loops = Append(@, [name |-> name, pc |-> "new", left |-> 0,
                                            active |-> TRUE,
                                            applied |-> "none"])]
               ELSE M
         r == LoadScan(m0, calls[c].idx + 1)
     IN /\ Commit(r.m)
        /\ calls' = [Spoil(calls) EXCEPT ![c].pc = r.pc, ![c].idx = r.idx]
  /\ UNCHANGED <<msgs, nCloses>>

\* ----------------------------------------------------------------- close
\* Task.cancel(): a request the task meets at its next step; a task that is
\* done is left alone.
CancelTask(m, t) ==
  IF m.utasks[t].st = "done" THEN m
  ELSE [m EXCEPT !.utasks[t].cancel = TRUE]

\* What a stretch of close() leaves: the state, where the call waits next,
\* its iterator over the subscriptions (used, pos), what it awaits (target),
\* and the number of handles it closed.
CloseResult(m, pc, used, pos, target, closed) ==
  [m |-> m, pc |-> pc, used |-> used, pos |-> pos, target |-> target,
   closed |-> closed]

\* The tail of close() without `self._replicas.clear()`: the handles are
\* closed and stay registered.
CloseTailKeepsRegistry(m) ==
  LET m1 == [m EXCEPT !.subs = <<>>,
                      !.replicas = [n \in DOMAIN m.replicas |->
                                      [m.replicas[n] EXCEPT !.open = FALSE]]]
      n == Cardinality(DOMAIN m.replicas)
  IN IF m.natsConn # NoId
     THEN [m |-> m1, pc |-> "connClose", used |-> 0, pos |-> 0,
           target |-> m.natsConn, closed |-> n]
     ELSE [m |-> m1, pc |-> "done", used |-> 0, pos |-> 0, target |-> NoId,
           closed |-> n]

\* The tail of close(), from `self._subscriptions.clear()` to the await of
\* the connection's close(): every registered handle is closed and the
\* registries are emptied in one stretch.
CloseTail(m) ==
  LET m1 == [m EXCEPT !.subs = <<>>, !.replicas = EmptyReg]
      n == Cardinality(DOMAIN m.replicas)
  IN IF m.natsConn # NoId
     THEN CloseResult(m1, "connClose", 0, 0, m.natsConn, n)
     ELSE CloseResult(m1, "done", 0, 0, NoId, n)

\* One step of the iterator of `for sub in self._subscriptions.values()`:
\* a dict iterator raises when the dict's size is not the size it started
\* with, ends at the end of the entries, and yields the entry at its position
\* otherwise; the loop body then awaits that subscription's unsubscribe().
CloseNext(m, used, pos) ==
  IF Len(m.subs) # used THEN CloseResult(m, "raised", used, pos, NoId, 0)
  ELSE IF pos > Len(m.subs) THEN CloseTail(m)
  ELSE CloseResult(m, "unsub", used, pos + 1, m.subs[pos].sub, 0)

\* close() once the update task is dealt with: `self._update_task = None`
\* and the start of the unsubscribe loop.
CloseAfterTask(m) == CloseNext([m EXCEPT !.updateTask = NoId], Len(m.subs), 1)

\* `await self._update_task` goes on at once.
AwaitSkipped(m, t) == CloseAfterTask(m)

\* `await self._update_task`: awaiting a task that is done does not suspend;
\* any other task is waited for.
AwaitUpdateTask(m, t) ==
  IF m.utasks[t].st = "done" THEN CloseAfterTask(m)
  ELSE CloseResult(m, "awaitTask", 0, 0, t, 0)

CommitCall(c, r) ==
  /\ Commit(r.m)
  /\ calls' = [calls EXCEPT ![c].pc = r.pc, ![c].used = r.used, ![c].pos = r.pos,
                            ![c].target = r.target,
                            ![c].closed = @ + r.closed,
                            ![c].changed = @ \/ r.m # M]

\* Some close() has completed with no step of a load() since it started.
CleanClosed ==
  \E d \in 1..MaxCalls :
    calls[d].kind = "close" /\ calls[d].pc = "done" /\ calls[d].clean

\* close() up to its first await.
CloseStart(c) ==
  /\ UNCHANGED <<routeVars, extVars>>
  /\ CanStart(c)
  /\ LET m0 == [M EXCEPT !.running = FALSE]
         t == updateTask
         r == IF t = NoId THEN CloseNext(m0, Len(subs), 1)
              ELSE AwaitUpdateTask(CancelTask(m0, t), t)
     IN /\ Commit(r.m)
        /\ calls' = [calls EXCEPT ![c] =
                       [kind |-> "close", pc |-> r.pc, idx |-> 0,
                        used |-> r.used, pos |-> r.pos, target |-> r.target,
                        clean |-> TRUE, task |-> t, closed |-> r.closed,
                        changed |-> r.m # M, after |-> CleanClosed]]
  /\ nCloses' = nCloses + 1
  /\ UNCHANGED msgs

\* `await self._update_task` returns: the task has finished.
CloseTaskDone(c) ==
  /\ UNCHANGED <<routeVars, extVars>>
  /\ calls[c].kind = "close" /\ calls[c].pc = "awaitTask"
  /\ utasks[calls[c].target].st = "done"
  /\ CommitCall(c, CloseAfterTask(M))
  /\ UNCHANGED <<msgs, nCloses>>

\* `await sub.unsubscribe()` returns, and the loop takes its next step.
CloseUnsubscribed(c) ==
  /\ UNCHANGED <<routeVars, extVars>>
  /\ calls[c].kind = "close" /\ calls[c].pc = "unsub"
  /\ LET m0 == [M EXCEPT !.loops[calls[c].target].active = FALSE]
         r == CloseNext(m0, calls[c].used, calls[c].pos)
     IN CommitCall(c, r)
  /\ UNCHANGED <<msgs, nCloses>>

\* `await sub.unsubscribe()` raises (the subscription or its connection is
\* already closed, or the request fails): close() propagates the error.
CloseUnsubscribeFailed(c) ==
  /\ UNCHANGED <<routeVars, extVars>>
  /\ calls[c].kind = "close" /\ calls[c].pc = "unsub"
  /\ calls' = [calls EXCEPT ![c].pc = "raised", ![c].target = NoId]
  /\ UNCHANGED <<running, replicas, subs, natsConn, jetstream, updateTask,
                 loops, utasks, conns, stats, msgs, nCloses, readClosed>>

\* The end of close() without `self._nats_conn = None`.
CloseConnClosedKept(c) ==
  /\ UNCHANGED <<routeVars, extVars>>
  /\ calls[c].kind = "close" /\ calls[c].pc = "connClose"
  /\ CommitCall(c, CloseResult([M EXCEPT !.conns[calls[c].target] = FALSE],
                               "done", 0, 0, NoId, 0))
  /\ UNCHANGED <<msgs, nCloses>>

\* `await self._nats_conn.close()` returns; `self._nats_conn = None`.
CloseConnClosed(c) ==
  /\ UNCHANGED <<routeVars, extVars>>
  /\ calls[c].kind = "close" /\ calls[c].pc = "connClose"
  /\ CommitCall(c, CloseResult([M EXCEPT !.conns[calls[c].target] = FALSE,
                                           !.natsConn = NoId],
                               "done", 0, 0, NoId, 0))
  /\ UNCHANGED <<msgs, nCloses>>

\* ------------------------------------------------------ the refresh task
\* The body of update_loop's for loop where a read that fails, or gives no
\* row, sets the txseq to 0.
RefreshedOrReset(m, n) ==
  IF m.replicas[n].open /\ m.stats[n] # NoSeq
  THEN [m.replicas[n] EXCEPT !.txseq = m.stats[n]]
  ELSE [m.replicas[n] EXCEPT !.txseq = 0]

\* One pass of update_loop's for loop: a replica whose read returns a row
\* takes that row's received_seq; a failed read (a closed handle) or no row
\* leaves the replica as it is.
Refreshed(m, n) ==
  IF m.replicas[n].open /\ m.stats[n] # NoSeq
  THEN [m.replicas[n] EXCEPT !.txseq = m.stats[n]]
  ELSE m.replicas[n]

\* update_loop's for loop: each replica is read inside its own try.
RefreshPass(m) ==
  [m EXCEPT !.replicas = [n \in DOMAIN m.replicas |-> Refreshed(m, n)],
            !.readClosed = @ \/ \E n \in DOMAIN m.replicas : ~m.replicas[n].open]

\* The task's first step: `while self._running`, then `await asyncio.sleep(5)`;
\* a task cancelled before it first runs never runs.
UpdaterStart(t) ==
  /\ t \in DOMAIN utasks
  /\ UNCHANGED <<routeVars, extVars>>
  /\ utasks[t].st = "new"
  /\ utasks' = [utasks EXCEPT ![t].st =
                  IF utasks[t].cancel \/ ~running THEN "done" ELSE "sleep"]
  /\ UNCHANGED <<running, replicas, subs, natsConn, jetstream, updateTask, calls,
                 loops, conns, stats, msgs, nCloses, readClosed>>

\* The sleep ends: with CancelledError when the task was cancelled, else
\* with a refresh pass and the next `while self._running`.
UpdaterWake(t) ==
  /\ t \in DOMAIN utasks
  /\ UNCHANGED <<routeVars, extVars>>
  /\ utasks[t].st = "sleep"
  /\ IF utasks[t].cancel
     THEN Commit([M EXCEPT !.utasks[t].st = "done"])
     ELSE Commit([RefreshPass(M) EXCEPT !.utasks[t].st =
                    IF running THEN "sleep" ELSE "done"])
  /\ UNCHANGED <<calls, msgs, nCloses>>

\* ------------------------------------------------- the consumption loops
\* A replication message: its payload parses as JSON or not; its statement
\* is absent, executes and commits ("ok"), or fails ("fail"); a statement
\* that succeeds may write a new ha_stats row (stat); txseq may be absent.
Seqs == 0..MaxSeq
OptSeqs == Seqs \cup {NoSeq}
Messages ==
  {[parse |-> "bad", sql |-> "absent", stat |-> NoSeq, txseq |-> NoSeq]}
  \cup [parse : {"ok"}, sql : {"absent", "fail"}, stat : {NoSeq}, txseq : OptSeqs]
  \cup [parse : {"ok"}, sql : {"ok"}, stat : OptSeqs, txseq : OptSeqs]

\* The try block of _apply_replication_message raises: the payload is not
\* JSON, or the statement fails to execute or commit (on a closed handle it
\* always does).
ApplyRaises(m, name, msg) ==
  \/ msg.parse = "bad"
  \/ msg.sql = "fail"
  \/ msg.sql = "ok" /\ ~m.replicas[name].open

\* _apply_replication_message that assigns txseq although the statement
\* raised
ApplyTxseqAlways(m, name, msg) ==
  IF name \notin DOMAIN m.replicas THEN m
  ELSE IF msg.parse = "bad" THEN m
  ELSE LET m1 == IF msg.sql = "ok" /\ m.replicas[name].open /\ msg.stat # NoSeq
                 THEN [m EXCEPT !.stats[name] = msg.stat]
                 ELSE m
       IN IF msg.txseq # NoSeq
          THEN [m1 EXCEPT !.replicas[name].txseq = msg.txseq]
          ELSE m1

\* _apply_replication_message: a replica that is not registered is skipped;
\* any failure is swallowed and leaves txseq alone.
ApplyReplicationMessage(m, name, msg) ==
  IF name \notin DOMAIN m.replicas THEN m
  ELSE IF ApplyRaises(m, name, msg) THEN m
  ELSE LET m1 == IF msg.sql = "ok" /\ msg.stat # NoSeq
                 THEN [m EXCEPT !.stats[name] = msg.stat]
                 ELSE m
       IN IF msg.txseq # NoSeq
          THEN [m1 EXCEPT !.replicas[name].txseq = msg.txseq]
          ELSE m1

\* How _apply_replication_message ended for the message whose ack the loop
\* awaits: it returned at once for a replica that is not registered
\* ("skipped"), caught an exception ("failed"), or went through ("ok").
Applied(m, name, msg) ==
  IF name \notin DOMAIN m.replicas THEN "skipped"
  ELSE IF ApplyRaises(m, name, msg) THEN "failed" ELSE "ok"

\* `while True`: the loop never looks at _running.
LoopTopForever(m) == "fetch"

\* `while self._running`: the loop goes on to its next fetch, or ends.
LoopTop(m) == IF m.running THEN "fetch" ELSE "done"

LoopUnchanged == UNCHANGED <<running, replicas, subs, natsConn, jetstream,
                             updateTask, calls, utasks, conns, stats, msgs,
                             nCloses, readClosed>>

\* The task's first step, some time after asyncio.create_task.
LoopStart(l) ==
  /\ l \in DOMAIN loops
  /\ UNCHANGED <<routeVars, extVars>>
  /\ loops[l].pc = "new"
  /\ loops' = [loops EXCEPT ![l].pc = LoopTop(M)]
  /\ LoopUnchanged

\* fetch raises TimeoutError: `continue`.
LoopFetchTimeout(l) ==
  /\ l \in DOMAIN loops
  /\ UNCHANGED <<routeVars, extVars>>
  /\ loops[l].pc = "fetch"
  /\ loops' = [loops EXCEPT ![l].pc = LoopTop(M)]
  /\ LoopUnchanged

\* fetch or ack raises something else: the loop sleeps 1s.
LoopError(l) ==
  /\ l \in DOMAIN loops
  /\ UNCHANGED <<routeVars, extVars>>
  /\ loops[l].pc \in {"fetch", "ack"}
  /\ loops' = [loops EXCEPT ![l].pc = "sleep", ![l].left = 0,
                             ![l].applied = "none"]
  /\ LoopUnchanged

LoopSleepDone(l) ==
  /\ l \in DOMAIN loops
  /\ UNCHANGED <<routeVars, extVars>>
  /\ loops[l].pc = "sleep"
  /\ loops' = [loops EXCEPT ![l].pc = LoopTop(M)]
  /\ LoopUnchanged

\* fetch returns n messages: the first is applied and its ack awaited.
LoopFetched(l, n, msg) ==
  /\ l \in DOMAIN loops
  /\ UNCHANGED <<routeVars, extVars>>
  /\ loops[l].pc = "fetch"
  /\ loops[l].active
  /\ msgs + n <= MaxMsgs
  /\ Commit([ApplyReplicationMessage(M, loops[l].name, msg)
               EXCEPT !.loops[l].pc = "ack", !.loops[l].left = n - 1,
                      !.loops[l].applied = Applied(M, loops[l].name, msg)])
  /\ msgs' = msgs + n
  /\ UNCHANGED <<calls, nCloses>>

\* ack returns and the batch holds another message: it is applied.
LoopAckedNext(l, msg) ==
  /\ l \in DOMAIN loops
  /\ UNCHANGED <<routeVars, extVars>>
  /\ loops[l].pc = "ack"
  /\ loops[l].left > 0
  /\ Commit([ApplyReplicationMessage(M, loops[l].name, msg)
               EXCEPT !.loops[l].left = @ - 1,
                      !.loops[l].applied = Applied(M, loops[l].name, msg)])
  /\ UNCHANGED <<calls, msgs, nCloses>>

\* ack returns for the last message of the batch.
LoopAckedLast(l) ==
  /\ l \in DOMAIN loops
  /\ UNCHANGED <<routeVars, extVars>>
  /\ loops[l].pc = "ack"
  /\ loops[l].left = 0
  /\ loops' = [loops EXCEPT ![l].pc = LoopTop(M), ![l].applied = "none"]
  /\ LoopUnchanged

\* A stream that delivers nothing: every fetch times out or fails.
QuietLoopNext(l) ==
  \/ LoopStart(l)
  \/ LoopFetchTimeout(l)
  \/ LoopError(l)
  \/ LoopSleepDone(l)

LoopNext(l) ==
  \/ QuietLoopNext(l)
  \/ \E n \in 1..Min(FetchBatch, MaxBatch), msg \in Messages : LoopFetched(l, n, msg)
  \/ \E msg \in Messages : LoopAckedNext(l, msg)
  \/ LoopAckedLast(l)

UpdaterNext(t) == UpdaterStart(t) \/ UpdaterWake(t)

LoadNext(c) ==
  \/ LoadStart(c)
  \/ LoadConnected(c)
  \/ \E ok \in BOOLEAN : LoadSubscribed(c, ok)

CloseNext_(c) ==
  \/ CloseStart(c)
  \/ CloseTaskDone(c)
  \/ CloseUnsubscribed(c)
  \/ CloseUnsubscribeFailed(c)
  \/ CloseConnClosed(c)

\* =================================================================
\* The routing connection (ha_connection.py) on its client (ha_client.py)
\* =================================================================
\* SQL text is a sequence of one-character strings.  The statements the
\* connection is asked to run, with what each one is: lexRead, whether its
\* trimmed text starts, in any case, with SELECT, PRAGMA, EXPLAIN or WITH;
\* modifies, whether executing it changes the database.
Statements ==
  <<
     [text |-> <<"s", "e", "l", "e", "c", "t", " ", "*", " ", "f", "r", "o", "m", " ", "t">>,
      lexRead |-> TRUE, modifies |-> FALSE],
     [text |-> <<" ", "\n", "\t", "S", "e", "L", "e", "C", "t", " ", "1", " ">>,
      lexRead |-> TRUE, modifies |-> FALSE],
     [text |-> <<"P", "R", "A", "G", "M", "A", " ", "x">>,
      lexRead |-> TRUE, modifies |-> FALSE],
     [text |-> <<"p", "r", "a", "g", "m", "a", " ", "x", "=", "1">>,
      lexRead |-> TRUE, modifies |-> TRUE],
     [text |-> <<"E", "x", "p", "l", "a", "i", "n", " ", "s", "e", "l", "e", "c", "t", " ", "1">>,
      lexRead |-> TRUE, modifies |-> FALSE],
     [text |-> <<"w", "i", "t", "h", " ", "c", " ", "a", "s", "(", "s", "e", "l", "e", "c", "t", " ", "1", ")", "s", "e", "l", "e", "c", "t", " ", "1">>,
      lexRead |-> TRUE, modifies |-> FALSE],
     [text |-> <<"W", "I", "T", "H", " ", "c", " ", "A", "S", "(", "s", "e", "l", "e", "c", "t", " ", "1", ")", "i", "n", "s", "e", "r", "t", " ", "i", "n", "t", "o", " ", "t", " ", "s", "e", "l", "e", "c", "t", " ", "1">>,
      lexRead |-> TRUE, modifies |-> TRUE],
     [text |-> <<"i", "n", "s", "e", "r", "t", " ", "i", "n", "t", "o", " ", "t", " ", "v", "a", "l", "u", "e", "s", "(", "1", ")">>,
      lexRead |-> FALSE, modifies |-> TRUE],
     [text |-> <<" ", "U", "p", "d", "a", "t", "e", " ", "t", " ", "s", "e", "t", " ", "x", "=", "1">>,
      lexRead |-> FALSE, modifies |-> TRUE],
     [text |-> <<"s", "e", "l", "e", "c">>,
      lexRead |-> FALSE, modifies |-> FALSE],
     [text |-> <<>>,
      lexRead |-> FALSE, modifies |-> FALSE]
  >>

Whitespace == {" ", "\t", "\n"}

\* str.upper() on one character.
UpperChar(c) ==
  CASE c = "a" -> "A"
  [] c = "b" -> "B"
  [] c = "c" -> "C"
  [] c = "d" -> "D"
  [] c = "e" -> "E"
  [] c = "f" -> "F"
  [] c = "g" -> "G"
  [] c = "h" -> "H"
  [] c = "i" -> "I"
  [] c = "j" -> "J"
  [] c = "k" -> "K"
  [] c = "l" -> "L"
  [] c = "m" -> "M"
  [] c = "n" -> "N"
  [] c = "o" -> "O"
  [] c = "p" -> "P"
  [] c = "q" -> "Q"
  [] c = "r" -> "R"
  [] c = "s" -> "S"
  [] c = "t" -> "T"
  [] c = "u" -> "U"
  [] c = "v" -> "V"
  [] c = "w" -> "W"
  [] c = "x" -> "X"
  [] c = "y" -> "Y"
  [] c = "z" -> "Z"
  [] OTHER -> c

Upper(t) == [k \in 1..Len(t) |-> UpperChar(t[k])]

\* str.strip(): the text without its leading and trailing whitespace.
RECURSIVE LStrip(_)
LStrip(t) == IF t # <<>> /\ Head(t) \in Whitespace THEN LStrip(Tail(t)) ELSE t

RECURSIVE RStrip(_)
RStrip(t) ==
  IF t # <<>> /\ t[Len(t)] \in Whitespace THEN RStrip(SubSeq(t, 1, Len(t) - 1)) ELSE t

Strip(t) == RStrip(LStrip(t))

\* str.startswith(prefix)
StartsWith(t, prefix) ==
  Len(t) >= Len(prefix) /\ SubSeq(t, 1, Len(prefix)) = prefix

KwSelect == <<"S", "E", "L", "E", "C", "T">>
KwPragma == <<"P", "R", "A", "G", "M", "A">>
KwExplain == <<"E", "X", "P", "L", "A", "I", "N">>
KwWith == <<"W", "I", "T", "H">>

\* _is_select_query without `.upper()`.
IsSelectQueryCased(sql) ==
  LET trimmed == Strip(sql)
  IN \/ StartsWith(trimmed, KwSelect)
     \/ StartsWith(trimmed, KwPragma)
     \/ StartsWith(trimmed, KwExplain)
     \/ StartsWith(trimmed, KwWith)

\* HAConnection._is_select_query
IsSelectQuery(sql) ==
  LET trimmed == Upper(Strip(sql))
  IN \/ StartsWith(trimmed, KwSelect)
     \/ StartsWith(trimmed, KwPragma)
     \/ StartsWith(trimmed, KwExplain)
     \/ StartsWith(trimmed, KwWith)

\* _is_select_query of each statement.
SelectQueryOf == [i \in 1..Len(Statements) |-> IsSelectQuery(Statements[i].text)]

\* The names lookups are made with: the files, the empty name, and a name no
\* file has.
LookupNames == {"", "a.db", "b.db", "x.db"}

\* A lookup that finds nothing (Python's None).
NoReplica == [found |-> FALSE, name |-> "", txseq |-> NoSeq]

\* get_replica that defaults the empty name to some replica whenever any is
\* loaded.
GetReplicaAnyDefault(reg, dbName) ==
  IF Cardinality(DOMAIN reg) >= 1 /\ dbName = ""
  THEN LET n == CHOOSE x \in DOMAIN reg : TRUE
       IN [found |-> TRUE, name |-> n, txseq |-> reg[n].txseq]
  ELSE IF dbName \in DOMAIN reg
       THEN [found |-> TRUE, name |-> dbName, txseq |-> reg[dbName].txseq]
       ELSE NoReplica

\* EmbeddedReplicasManager.get_replica
GetReplica(reg, dbName) ==
  IF Cardinality(DOMAIN reg) = 1 /\ dbName = ""
  THEN LET n == CHOOSE x \in DOMAIN reg : TRUE
       IN [found |-> TRUE, name |-> n, txseq |-> reg[n].txseq]
  ELSE IF dbName \in DOMAIN reg
       THEN [found |-> TRUE, name |-> dbName, txseq |-> reg[dbName].txseq]
       ELSE NoReplica

\* is_replica_updated with a strict comparison.
IsReplicaUpdatedStrict(reg, dbName, txseq) ==
  LET replica == GetReplica(reg, dbName)
  IN IF ~replica.found THEN FALSE
     ELSE replica.txseq > txseq

\* EmbeddedReplicasManager.is_replica_updated
IsReplicaUpdated(reg, dbName, txseq) ==
  LET replica == GetReplica(reg, dbName)
  IN IF ~replica.found THEN FALSE
     ELSE replica.txseq >= txseq

\* EmbeddedReplicasManager.create_connection: a read-only handle on the file
\* of the replica found, named here by that file; "None" when none is found.
CreateConnection(reg, dbName) ==
  LET replica == GetReplica(reg, dbName)
  IN IF ~replica.found THEN "None" ELSE replica.name


NoRoute == [op |-> "none", sql |-> 0, target |-> "none", handle |-> "None",
            pending |-> FALSE]
NoCheck == [called |-> FALSE, name |-> "", seq |-> 0, result |-> FALSE]

\* No value returned (a call that raised returns none).
NoResult == [none |-> TRUE]

\* No response received.
NoResponse == [columns |-> <<>>, nrows |-> 0, rowsAffected |-> 0, txseq |-> 0,
               error |-> "none"]

\* No call of the client in progress.  Of a call: the RPC attempts made and
\* the requests sent, the client's txseq when it started (before), the
\* response received (resp), and what the caller got.
NoRpc == [op |-> "none", pc |-> "idle", attempts |-> 0, requests |-> 0,
          before |-> 0, resp |-> NoResponse, outcome |-> "none",
          message |-> "none", result |-> NoResult]

\* No use of the codec yet.
NoWire == [op |-> "none"]

\* The manager constructed once, no client call, no use of the codec.
ExtIdleInit ==
  /\ mInstance = 1
  /\ mInitialized = TRUE
  /\ mObjects = 1
  /\ lastAcq = NoId
  /\ rpc = NoRpc
  /\ wire = NoWire

\* The manager's specifications run with no connection.
RouteIdleInit ==
  /\ cEmbedded = "None"
  /\ cManager = FALSE
  /\ cRepId = ""
  /\ cTxseq = 0
  /\ cClosed = FALSE
  /\ lastRoute = NoRoute
  /\ lastCheck = NoCheck

\* The registries a manager can hold: any of the replica files, each at any
\* sequence number.
ReplicaFiles == {Dir[i].name : i \in {k \in 1..Len(Dir) : Dir[k].isFile /\ IsSqliteFile(Dir[k]) /\ Dir[k].opens}}
Registries ==
  UNION {[S -> [txseq : Seqs, open : {TRUE}]] : S \in SUBSET ReplicaFiles}

\* HAConnection.__init__ on a manager whose registry is reg: embedded says
\* whether embedded_replicas_dir and replication_url are both given, id is the
\* path of the URL.
RouteInit ==
  /\ running = FALSE /\ subs = <<>> /\ natsConn = NoId /\ jetstream = FALSE
  /\ updateTask = NoId /\ calls = [c \in 1..MaxCalls |-> IdleCall]
  /\ loops = <<>> /\ utasks = <<>> /\ conns = <<>> /\ stats = InitialStats
  /\ msgs = 0 /\ nCloses = 0 /\ readClosed = FALSE
  /\ replicas \in Registries
  /\ cRepId \in LookupNames
  /\ cTxseq = 0
  /\ cClosed = FALSE
  /\ \E embedded \in BOOLEAN :
       /\ cManager = embedded
       /\ cEmbedded = IF embedded THEN CreateConnection(replicas, cRepId) ELSE "None"
  /\ lastRoute = NoRoute
  /\ lastCheck = NoCheck
  /\ ExtIdleInit

\* The condition under which query() and run() execute on the replica.
RoutesLocally(i) ==
  /\ cEmbedded # "None"
  /\ cManager
  /\ SelectQueryOf[i]
  /\ IsReplicaUpdated(replicas, cRepId, cTxseq)

\* query() / run() / execute() of statement i, up to the statement's
\* execution on the connection's handle, or up to the await of the server's
\* response.
Routed(op, i) ==
  LET local == op \in {"query", "run"} /\ RoutesLocally(i)
  IN /\ ~lastRoute.pending
     /\ lastRoute' = [op |-> op, sql |-> i,
                      target |-> IF local THEN "local" ELSE "remote",
                      handle |-> IF local THEN cEmbedded ELSE "None",
                      pending |-> ~local]
     /\ lastCheck' = NoCheck
     /\ UNCHANGED <<cEmbedded, cManager, cRepId, cTxseq, cClosed>>
     /\ UNCHANGED <<mgrVars, extVars>>

RouteQuery(i) == Routed("query", i)
RouteRun(i) == Routed("run", i)
RouteExecute(i) == Routed("execute", i)

\* _send_query that takes the txseq of every response.
AfterResponseAlways(txseq, resp) == resp

\* HAClient._send_query on a response that reports resp (0: not reported).
AfterResponse(txseq, resp) == IF resp > 0 THEN resp ELSE txseq

\* The server's response to the statement sent arrives.
RouteResponse(resp) ==
  /\ lastRoute.pending
  /\ cTxseq' = AfterResponse(cTxseq, resp)
  /\ lastRoute' = NoRoute
  /\ UNCHANGED <<cEmbedded, cManager, cRepId, cClosed, lastCheck>>
  /\ UNCHANGED <<mgrVars, extVars>>

\* The call fails in transport, or the stream ends without a response.
RouteFailed ==
  /\ lastRoute.pending
  /\ lastRoute' = NoRoute
  /\ UNCHANGED <<cEmbedded, cManager, cRepId, cTxseq, cClosed, lastCheck>>
  /\ UNCHANGED <<mgrVars, extVars>>

\* HAConnection.set_catalog
SetCatalog(catalog) ==
  /\ UNCHANGED <<mgrVars, extVars>>
  /\ ~lastRoute.pending
  /\ catalog # ""
  /\ cRepId' = catalog
  /\ cEmbedded' = IF cManager THEN CreateConnection(replicas, catalog) ELSE cEmbedded
  /\ lastRoute' = NoRoute
  /\ lastCheck' = NoCheck
  /\ UNCHANGED <<cManager, cTxseq, cClosed>>

\* HAConnection.close
ConnClose ==
  /\ UNCHANGED <<mgrVars, extVars>>
  /\ ~lastRoute.pending
  /\ ~cClosed
  /\ cEmbedded' = "None"
  /\ cClosed' = TRUE
  /\ lastRoute' = NoRoute
  /\ lastCheck' = NoCheck
  /\ UNCHANGED <<cManager, cRepId, cTxseq>>

\* A direct call of the manager's is_replica_updated(name, seq).
CheckUpdated(name, seq) ==
  /\ UNCHANGED <<mgrVars, extVars>>
  /\ ~lastRoute.pending
  /\ lastCheck' = [called |-> TRUE, name |-> name, seq |-> seq,
                   result |-> IsReplicaUpdated(replicas, name, seq)]
  /\ lastRoute' = NoRoute
  /\ UNCHANGED <<cEmbedded, cManager, cRepId, cTxseq, cClosed>>

\* Beside the connection, the manager's loop applies a replication message
\* that carries txseq seq to replica name.
ReplicaApplied(name, seq) ==
  /\ name \in DOMAIN replicas
  /\ replicas' = ApplyReplicationMessage(
                    M, name, [parse |-> "ok", sql |-> "absent", stat |-> NoSeq,
                              txseq |-> seq]).replicas
  /\ UNCHANGED <<running, subs, natsConn, jetstream, updateTask, calls, loops,
                 utasks, conns, stats, msgs, nCloses, readClosed>>
  /\ UNCHANGED <<routeVars, extVars>>

\* Beside the connection, the manager is closed and then loads a directory
\* that holds the replica files `files`: close() empties the registry, and
\* load() registers each file at the txseq its ha_stats table seeds.
ManagerReloaded(files) ==
  /\ replicas' = [n \in files |-> [txseq |-> SeedTxseq(stats, n), open |-> TRUE]]
  /\ UNCHANGED <<running, subs, natsConn, jetstream, updateTask, calls, loops,
                 utasks, conns, stats, msgs, nCloses, readClosed>>
  /\ UNCHANGED <<routeVars, extVars>>

RouteNext ==
  \/ \E i \in 1..Len(Statements) : RouteQuery(i) \/ RouteRun(i) \/ RouteExecute(i)
  \/ \E name \in ReplicaFiles, seq \in Seqs : ReplicaApplied(name, seq)
  \/ \E resp \in Seqs : RouteResponse(resp)
  \/ RouteFailed
  \/ \E catalog \in LookupNames : SetCatalog(catalog)
  \/ ConnClose
  \/ \E name \in LookupNames, seq \in 0..(MaxSeq + 1) : CheckUpdated(name, seq)

SpecRoute == RouteInit /\ [][RouteNext]_vars

\* SpecReload: SpecRoute on a manager that is closed and loaded again, with
\* any directory, while the connection is in use.
ReloadNext ==
  \/ RouteNext
  \/ \E files \in SUBSET ReplicaFiles : ManagerReloaded(files)

SpecReload == RouteInit /\ [][ReloadNext]_vars

\* =================================================================
\* The client's remote calls (ha_client.py)
\* =================================================================
\* A response as the client reads it: the columns and the number of rows of
\* its result set, rows_affected, txseq, and error ("" when there is none).
Responses ==
  [columns : {<<>>, <<"c">>}, nrows : {0, 1}, rowsAffected : {0, 1},
   txseq : Seqs, error : {"", "no such table"}]

\* ExecutionResult(columns, rows, rows_affected), rows by their number.
ExecutionResult(columns, nrows, rowsAffected) ==
  [columns |-> columns, nrows |-> nrows, rowsAffected |-> rowsAffected]

Raised(message) == [outcome |-> "raised", message |-> message, result |-> NoResult]
Returned(result) == [outcome |-> "returned", message |-> "none", result |-> result]

\* execute_query after _send_query returned resp.
ExecuteQueryOutcome(resp) ==
  IF resp.error # "" THEN Raised(resp.error)
  ELSE Returned(ExecutionResult(resp.columns, resp.nrows, 0))

\* execute_update that does not look at the error field.
ExecuteUpdateUnchecked(resp) == Returned([int |-> resp.rowsAffected])

\* execute_update after _send_query returned resp.
ExecuteUpdateOutcome(resp) ==
  IF resp.error # "" THEN Raised(resp.error)
  ELSE Returned([int |-> resp.rowsAffected])

\* execute after _send_query returned resp.
ExecuteOutcome(resp) ==
  IF resp.error # "" THEN Raised(resp.error)
  ELSE IF resp.columns = <<>>
       THEN Returned(ExecutionResult(<<>>, 0, resp.rowsAffected))
       ELSE Returned(ExecutionResult(resp.columns, resp.nrows, resp.rowsAffected))

ClientOps == {"execute_query", "execute_update", "execute"}

Outcome(op, resp) ==
  CASE op = "execute_query" -> ExecuteQueryOutcome(resp)
    [] op = "execute_update" -> ExecuteUpdateOutcome(resp)
    [] op = "execute" -> ExecuteOutcome(resp)

ClientUnchanged ==
  /\ UNCHANGED mgrVars
  /\ UNCHANGED <<cEmbedded, cManager, cRepId, cClosed, lastRoute, lastCheck>>
  /\ UNCHANGED <<mInstance, mInitialized, mObjects, lastAcq, wire>>

\* execute_query / execute_update / execute up to the await of the first
\* response in _send_query: one call of the stub's Query with an iterator
\* that yields one request.
ClientCall(op) ==
  /\ rpc.pc # "sent"
  /\ rpc' = [NoRpc EXCEPT !.op = op, !.pc = "sent", !.attempts = 1,
                          !.requests = 1, !.before = cTxseq]
  /\ UNCHANGED cTxseq
  /\ ClientUnchanged

\* The first response arrives: _send_query takes its txseq and returns it,
\* and the caller raises on its error or builds its result.
ClientResponse(resp) ==
  /\ rpc.pc = "sent"
  /\ cTxseq' = AfterResponse(cTxseq, resp.txseq)
  /\ LET o == Outcome(rpc.op, resp)
     IN rpc' = [rpc EXCEPT !.pc = "response", !.resp = resp,
                           !.outcome = o.outcome,
                           !.message = o.message, !.result = o.result]
  /\ ClientUnchanged

\* A failed attempt that is made again.
ClientRpcErrorRetried ==
  /\ rpc.pc = "sent"
  /\ rpc' = [rpc EXCEPT !.attempts = Min(@ + 1, 2), !.requests = Min(@ + 1, 2)]
  /\ UNCHANGED cTxseq
  /\ ClientUnchanged

\* The call fails with grpc.RpcError: _send_query raises.
ClientRpcError ==
  /\ rpc.pc = "sent"
  /\ rpc' = [rpc EXCEPT !.pc = "rpcError", !.outcome = "raised",
                        !.message = "gRPC error"]
  /\ UNCHANGED cTxseq
  /\ ClientUnchanged

\* The response stream ends with no response: _send_query raises.
ClientNoResponse ==
  /\ rpc.pc = "sent"
  /\ rpc' = [rpc EXCEPT !.pc = "noResponse", !.outcome = "raised",
                        !.message = "No response received"]
  /\ UNCHANGED cTxseq
  /\ ClientUnchanged

ClientNext ==
  \/ \E op \in ClientOps : ClientCall(op)
  \/ \E resp \in Responses : ClientResponse(resp)
  \/ ClientRpcError
  \/ ClientNoResponse

\* =================================================================
\* Outstanding calls on one client (ha_client.py, _send_query)
\* =================================================================
\* Up to MaxCalls tasks call _send_query on the same client at once, each on
\* its own response stream.  Of call i: where it stands (st), and the txseq
\* of the response the server produced for it; server is the txseq the
\* server is at.
NoCalls == [op |-> "calls", st |-> [i \in 1..MaxCalls |-> "idle"],
            txseq |-> [i \in 1..MaxCalls |-> 0], server |-> 0]

CallsUnchanged ==
  /\ UNCHANGED mgrVars
  /\ UNCHANGED <<cEmbedded, cManager, cRepId, cClosed, lastRoute, lastCheck>>
  /\ UNCHANGED <<mInstance, mInitialized, mObjects, lastAcq, wire>>

\* _send_query up to the await of the first response of its stream.
SendQuerySent(i) ==
  /\ rpc.st[i] \in {"idle", "done"}
  /\ rpc' = [rpc EXCEPT !.st[i] = "sent", !.txseq[i] = 0]
  /\ UNCHANGED cTxseq
  /\ CallsUnchanged

\* The server produces the response of call i: a write moves the server's
\* txseq on (bump), and the response reports the txseq the server is at, so
\* the values reported never decrease in the order of production.
ServerResponds(i, bump) ==
  /\ rpc.st[i] = "sent"
  /\ rpc.server + bump <= MaxSeq
  /\ rpc' = [rpc EXCEPT !.st[i] = "produced", !.server = @ + bump,
                        !.txseq[i] = rpc.server + bump]
  /\ UNCHANGED cTxseq
  /\ CallsUnchanged

\* The task of call i takes its response: `if response.txseq > 0:
\* self._txseq = response.txseq`.  The tasks take their responses in any
\* order.
SendQueryResponse(i) ==
  /\ rpc.st[i] = "produced"
  /\ cTxseq' = AfterResponse(cTxseq, rpc.txseq[i])
  /\ rpc' = [rpc EXCEPT !.st[i] = "done"]
  /\ CallsUnchanged

\* The call ends with grpc.RpcError: the client's txseq stays.
SendQueryFailed(i) ==
  /\ rpc.st[i] \in {"sent", "produced"}
  /\ rpc' = [rpc EXCEPT !.st[i] = "done", !.txseq[i] = 0]
  /\ UNCHANGED cTxseq
  /\ CallsUnchanged

\* =================================================================
\* The manager as a singleton (embedded_replicas.py, __new__ / __init__)
\* =================================================================
\* __init__ that assigns the attributes on every construction.
ManagerInitAlways(m, initialized) ==
  [m EXCEPT !.replicas = EmptyReg, !.natsConn = NoId, !.jetstream = FALSE,
            !.subs = <<>>, !.updateTask = NoId, !.running = FALSE]

\* __init__ on an object whose _initialized is `initialized`.
ManagerInit(m, initialized) ==
  IF initialized THEN m
  ELSE [m EXCEPT !.replicas = EmptyReg, !.natsConn = NoId, !.jetstream = FALSE,
                 !.subs = <<>>, !.updateTask = NoId, !.running = FALSE]

\* The class before any acquisition.
ClassInit ==
  /\ mInstance = NoId
  /\ mInitialized = FALSE
  /\ mObjects = 0
  /\ lastAcq = NoId
  /\ rpc = NoRpc
  /\ wire = NoWire

\* get_instance() or EmbeddedReplicasManager(): __new__ makes the object
\* when the class holds none, then __init__ runs on what __new__ returned.
Acquire ==
  LET fresh == mInstance = NoId
      obj == IF fresh THEN mObjects + 1 ELSE mInstance
  IN /\ mInstance' = obj
     /\ mObjects' = IF fresh THEN mObjects + 1 ELSE mObjects
     /\ mInitialized' = TRUE
     /\ lastAcq' = obj
     /\ Commit(ManagerInit(M, IF fresh THEN FALSE ELSE mInitialized))
     /\ UNCHANGED <<calls, msgs, nCloses, rpc, wire>>
     /\ UNCHANGED routeVars

\* The tasks that call load() / close() on the instance acquired.
SingletonCalls == 1..(MaxLoads + 1)

\* =================================================================
\* The wire codec (_generated/__init__.py)
\* =================================================================
\* A buffer is a sequence of bytes 0..255; offsets count from 0 as in the
\* code, so data[offset] of the code is data[offset + 1] here.

\* data[a : b] of Python: clipped to the buffer.
Slice(data, a, b) == SubSeq(data, Min(a, Len(data)) + 1, Min(b, Len(data)))

\* _encode_varint with its loop bound at one byte (0xFF) instead of 0x7F.
RECURSIVE EncodeVarintWide(_)
EncodeVarintWide(value) ==
  IF value > 255
  THEN <<(value % 128) + 128>> \o EncodeVarintWide(value \div 128)
  ELSE <<value>>

\* DatabaseServiceStub._encode_varint: (value & 0x7F) | 0x80 while
\* value > 0x7F, shifting right by 7, then the last byte.
RECURSIVE EncodeVarint(_)
EncodeVarint(value) ==
  IF value > 127
  THEN <<(value % 128) + 128>> \o EncodeVarint(value \div 128)
  ELSE <<value>>

\* The loop of _decode_varint; mult is 1 << shift.  The bits or-ed in are
\* above the bits of result, so `|=` adds.
RECURSIVE DecodeVarintLoop(_, _, _, _, _)
DecodeVarintLoop(data, offset, result, mult, bytesRead) ==
  IF offset + bytesRead < Len(data)
  THEN LET byte == data[offset + bytesRead + 1]
           r == result + (byte % 128) * mult
       IN IF byte < 128
          THEN [value |-> r, bytesRead |-> bytesRead + 1]
          ELSE DecodeVarintLoop(data, offset, r, mult * 128, bytesRead + 1)
  ELSE [value |-> result, bytesRead |-> bytesRead]

\* _decode_varint (the same in the three wrappers)
DecodeVarint(data, offset) == DecodeVarintLoop(data, offset, 0, 1, 0)

\* bytes.decode("utf-8") of bytes that are ASCII or lone continuation
\* bytes (0x80..0xBF): the text has the bytes of the ASCII input, and a lone
\* continuation byte raises UnicodeDecodeError.
Utf8Valid(bytes) == \A i \in 1..Len(bytes) : bytes[i] < 128

\* A complete varint starts at offset.
VarintAt(data, offset) ==
  \E k \in 1..Len(data) :
    /\ k > offset /\ data[k] < 128
    /\ \A j \in (offset + 1)..(k - 1) : data[j] >= 128

\* google.protobuf's Any.ParseFromString accepts the bytes: a sequence of
\* whole fields of wire type 0 (varint), 1 (8 bytes), 2 (length-delimited)
\* or 5 (4 bytes) with a field number above 0; type_url (field 1) is UTF-8.
RECURSIVE AnyParsesFrom(_, _)
AnyParsesFrom(data, offset) ==
  IF offset >= Len(data) THEN offset = Len(data)
  ELSE IF ~VarintAt(data, offset) THEN FALSE
  ELSE LET tag == DecodeVarint(data, offset)
           wt == tag.value % 8
           at == offset + tag.bytesRead
       IN IF tag.value \div 8 = 0 THEN FALSE
          ELSE IF wt = 0
               THEN VarintAt(data, at)
                    /\ AnyParsesFrom(data, at + DecodeVarint(data, at).bytesRead)
          ELSE IF wt = 1 THEN AnyParsesFrom(data, at + 8)
          ELSE IF wt = 5 THEN AnyParsesFrom(data, at + 4)
          ELSE IF wt = 2
               THEN /\ VarintAt(data, at)
                    /\ LET len == DecodeVarint(data, at)
                           start == at + len.bytesRead
                       IN /\ start + len.value <= Len(data)
                          /\ tag.value = 10 =>
                               Utf8Valid(Slice(data, start, start + len.value))
                          /\ AnyParsesFrom(data, start + len.value)
          ELSE FALSE

AnyParses(data) == AnyParsesFrom(data, 0)

\* What a decoder gives: the message built, or an exception.
Decoded(msg) == [status |-> "ok", msg |-> msg]
DecodeError == [status |-> "error", msg |-> <<>>]

\* QueryResponseWrapper._parse_row
RECURSIVE ParseRow(_, _, _)
ParseRow(data, offset, row) ==
  IF offset >= Len(data) THEN Decoded(row)
  ELSE LET tagByte == data[offset + 1]
       IN IF tagByte \div 8 = 1 /\ tagByte % 8 = 2
          THEN LET len == DecodeVarint(data, offset + 1)
                   start == offset + 1 + len.bytesRead
                   any == Slice(data, start, start + len.value)
               IN IF ~AnyParses(any) THEN DecodeError
                  ELSE ParseRow(data, start + len.value, Append(row, any))
          ELSE Decoded(row)

EmptyResultSet == [columns |-> <<>>, rows |-> <<>>]

\* QueryResponseWrapper._parse_result_set
RECURSIVE ParseResultSet(_, _, _)
ParseResultSet(data, offset, rs) ==
  IF offset >= Len(data) THEN Decoded(rs)
  ELSE LET tagByte == data[offset + 1]
           len == DecodeVarint(data, offset + 1)
           start == offset + 1 + len.bytesRead
           body == Slice(data, start, start + len.value)
       IN IF tagByte \div 8 = 1 /\ tagByte % 8 = 2
          THEN IF ~Utf8Valid(body) THEN DecodeError
               ELSE ParseResultSet(data, start + len.value,
                                   [rs EXCEPT !.columns = Append(@, body)])
          ELSE IF tagByte \div 8 = 2 /\ tagByte % 8 = 2
          THEN LET row == ParseRow(body, 0, <<>>)
               IN IF row.status = "error" THEN DecodeError
                  ELSE ParseResultSet(data, start + len.value,
                                      [rs EXCEPT !.rows = Append(@, row.msg)])
          ELSE Decoded(rs)

EmptyQueryResponse ==
  [resultSet |-> EmptyResultSet, rowsAffected |-> 0, txseq |-> 0, error |-> <<>>]

\* QueryResponseWrapper._parse where an unrecognised tag is stepped over
\* and parsing goes on.
RECURSIVE QueryResponseParseSkips(_, _, _)
QueryResponseParseSkips(data, offset, msg) ==
  IF offset >= Len(data) THEN Decoded(msg)
  ELSE LET tagByte == data[offset + 1]
           v == DecodeVarint(data, offset + 1)
           start == offset + 1 + v.bytesRead
           body == Slice(data, start, start + v.value)
       IN IF tagByte \div 8 = 1 /\ tagByte % 8 = 2
          THEN LET rs == ParseResultSet(body, 0, msg.resultSet)
               IN IF rs.status = "error" THEN DecodeError
                  ELSE QueryResponseParseSkips(data, start + v.value,
                                          [msg EXCEPT !.resultSet = rs.msg])
          ELSE IF tagByte \div 8 = 2 /\ tagByte % 8 = 0
          THEN QueryResponseParseSkips(data, start,
                                       [msg EXCEPT !.rowsAffected = v.value])
          ELSE IF tagByte \div 8 = 3 /\ tagByte % 8 = 0
          THEN QueryResponseParseSkips(data, start, [msg EXCEPT !.txseq = v.value])
          ELSE IF tagByte \div 8 = 4 /\ tagByte % 8 = 2
          THEN IF ~Utf8Valid(body) THEN DecodeError
               ELSE QueryResponseParseSkips(data, start + v.value,
                                            [msg EXCEPT !.error = body])
          ELSE QueryResponseParseSkips(data, offset + 1, msg)

\* QueryResponseWrapper._parse: msg holds the fields of self; the nested
\* result set is parsed into the lists self.result_set already has.
RECURSIVE QueryResponseParse(_, _, _)
QueryResponseParse(data, offset, msg) ==
  IF offset >= Len(data) THEN Decoded(msg)
  ELSE LET tagByte == data[offset + 1]
           v == DecodeVarint(data, offset + 1)
           start == offset + 1 + v.bytesRead
           body == Slice(data, start, start + v.value)
       IN IF tagByte \div 8 = 1 /\ tagByte % 8 = 2
          THEN LET rs == ParseResultSet(body, 0, msg.resultSet)
               IN IF rs.status = "error" THEN DecodeError
                  ELSE QueryResponseParse(data, start + v.value,
                                          [msg EXCEPT !.resultSet = rs.msg])
          ELSE IF tagByte \div 8 = 2 /\ tagByte % 8 = 0
          THEN QueryResponseParse(data, start, [msg EXCEPT !.rowsAffected = v.value])
          ELSE IF tagByte \div 8 = 3 /\ tagByte % 8 = 0
          THEN QueryResponseParse(data, start, [msg EXCEPT !.txseq = v.value])
          ELSE IF tagByte \div 8 = 4 /\ tagByte % 8 = 2
          THEN IF ~Utf8Valid(body) THEN DecodeError
               ELSE QueryResponseParse(data, start + v.value,
                                       [msg EXCEPT !.error = body])
          ELSE Decoded(msg)

\* DownloadResponseWrapper._parse: msg is self.data, raw bytes
RECURSIVE DownloadResponseParse(_, _, _)
DownloadResponseParse(data, offset, msg) ==
  IF offset >= Len(data) THEN Decoded(msg)
  ELSE LET tagByte == data[offset + 1]
           len == DecodeVarint(data, offset + 1)
           start == offset + 1 + len.bytesRead
       IN IF tagByte \div 8 = 1 /\ tagByte % 8 = 2
          THEN DownloadResponseParse(data, start + len.value,
                                     Slice(data, start, start + len.value))
          ELSE Decoded(msg)

\* ReplicationIDsResponseWrapper._parse: msg is self.replication_id
RECURSIVE ReplicationIDsResponseParse(_, _, _)
ReplicationIDsResponseParse(data, offset, msg) ==
  IF offset >= Len(data) THEN Decoded(msg)
  ELSE LET tagByte == data[offset + 1]
           len == DecodeVarint(data, offset + 1)
           start == offset + 1 + len.bytesRead
           body == Slice(data, start, start + len.value)
       IN IF tagByte \div 8 = 1 /\ tagByte % 8 = 2
          THEN IF ~Utf8Valid(body) THEN DecodeError
               ELSE ReplicationIDsResponseParse(data, start + len.value,
                                                Append(msg, body))
          ELSE Decoded(msg)

Decoders == {"QueryResponse", "ResultSet", "Row", "DownloadResponse",
             "ReplicationIDsResponse"}

\* The constructor of a wrapper (or the nested parse call) on a buffer.
Decode(kind, data) ==
  CASE kind = "QueryResponse" -> QueryResponseParse(data, 0, EmptyQueryResponse)
    [] kind = "ResultSet" -> ParseResultSet(data, 0, EmptyResultSet)
    [] kind = "Row" -> ParseRow(data, 0, <<>>)
    [] kind = "DownloadResponse" -> DownloadResponseParse(data, 0, <<>>)
    [] kind = "ReplicationIDsResponse" -> ReplicationIDsResponseParse(data, 0, <<>>)

\* The pieces the buffers are made of, by decoder: whole fields (0x0A
\* field 1, 0x12 field 2, 0x22 field 4, length-delimited; 0x10 field 2, 0x18
\* field 3, varint), a field whose text is not UTF-8, a tag of an unknown
\* field (0x41), a tag of a known field with another wire type (0x20, 0x10,
\* 0x08), and fields cut inside a varint or before the end of their bytes.
Pieces(kind) ==
  CASE kind = "QueryResponse" ->
         {<<16, 1>>, <<24, 2>>, <<24, 129, 1>>, <<34, 1, 65>>,
          <<10, 3, 10, 1, 65>>, <<10, 6, 18, 4, 10, 2, 8, 1>>,
          <<34, 1, 129>>, <<65>>, <<32>>, <<24, 129>>, <<34, 2, 65>>}
    [] kind = "ResultSet" ->
         {<<10, 1, 65>>, <<18, 4, 10, 2, 8, 1>>, <<18, 0>>, <<10, 1, 129>>,
          <<65>>, <<16>>, <<10, 2, 65>>, <<18, 129>>, <<18, 3, 10, 2, 8>>}
    [] kind = "Row" ->
         {<<10, 2, 8, 1>>, <<10, 0>>, <<10, 1, 8>>, <<65>>, <<8>>,
          <<10, 2, 8>>, <<10, 129>>}
    [] kind = "DownloadResponse" ->
         {<<10, 1, 65>>, <<10, 2, 65, 129>>, <<10, 0>>, <<65>>, <<8>>,
          <<10, 2, 65>>, <<10, 129>>, <<10>>}
    [] kind = "ReplicationIDsResponse" ->
         {<<10, 1, 65>>, <<10, 1, 129>>, <<10, 0>>, <<65>>, <<8>>,
          <<10, 2, 65>>, <<10, 129>>, <<10>>}

MaxPieces == 3

RECURSIVE Concat(_)
Concat(pieces) ==
  IF pieces = <<>> THEN <<>> ELSE Head(pieces) \o Concat(Tail(pieces))

Buffers(kind) ==
  UNION {{Concat(ps) : ps \in [1..k -> Pieces(kind)]} : k \in 0..MaxPieces}

\* The integers encoded: the small ones, and both sides of every length
\* change of the encoding up to the largest integer of the checker.
VarintValues ==
  (0..300) \cup {16383, 16384, 2097151, 2097152, 268435455, 268435456,
                 2147483647}

NoOutput == [status |-> "none", msg |-> <<>>]

WireInputs ==
  UNION {{[op |-> "input", kind |-> k, n |-> 0, buf |-> b, out |-> NoOutput] :
            b \in Buffers(k)} : k \in Decoders}
  \cup {[op |-> "input", kind |-> "varint", n |-> v, buf |-> <<>>,
         out |-> NoOutput] : v \in VarintValues}

WireUnchanged == UNCHANGED <<mgrVars, routeVars, mInstance, mInitialized,
                             mObjects, lastAcq, rpc>>

\* _decode_varint(_encode_varint(n), 0)
VarintRoundTrip ==
  /\ wire.op = "input" /\ wire.kind = "varint"
  /\ LET enc == EncodeVarint(wire.n)
     IN wire' = [wire EXCEPT !.op = "done", !.buf = enc,
                             !.out = Decoded(DecodeVarint(enc, 0))]
  /\ WireUnchanged

\* One decoder applied to one buffer.
DecodeBuffer(kind) ==
  /\ wire.op = "input" /\ wire.kind = kind
  /\ wire' = [wire EXCEPT !.op = "done", !.out = Decode(kind, wire.buf)]
  /\ WireUnchanged

NewQueryResponse == DecodeBuffer("QueryResponse")
NestedResultSet == DecodeBuffer("ResultSet")
NestedRow == DecodeBuffer("Row")
NewDownloadResponse == DecodeBuffer("DownloadResponse")
NewReplicationIDsResponse == DecodeBuffer("ReplicationIDsResponse")

\* =================================================================
\* The AnyValue converter (client/converter.py)
\* =================================================================
\* A Python value is [type, v]: type is the name of its class and v its
\* content as a sequence of integers, so that any two values compare.
\*   NoneType <<>>         str, bytes, bytearray: the characters or bytes
\*   bool <<0>> or <<1>>   float: <<code of the number>>, 0.0 being <<0>>
\*   int <<a, b, c>>, the integer a * 2^62 + b * 2^31 + c with b and c in
\*       0 .. 2^31 - 1 (Python integers have no width)
\*   datetime <<aware, utcoffset in seconds, seconds of the wall clock from
\*       1970-01-01T00:00:00, microsecond>>
\*   list <<>>: a value of a class to_any does not know
PyValue(type, v) == [type |-> type, v |-> v]
PyNone == PyValue("NoneType", <<>>)

\* -2147483648, 2147483647 (converter.py line 41) and the bounds of the
\* int64 field of Int64Value
Int32Min == <<-1, 2147483647, 0>>
Int32Max == <<0, 0, 2147483647>>
Int64Min == <<-2, 0, 0>>
Int64Max == <<1, 2147483647, 2147483647>>

\* x <= y on integers
IntLeq(x, y) ==
  \/ x[1] < y[1]
  \/ x[1] = y[1] /\ x[2] < y[2]
  \/ x[1] = y[1] /\ x[2] = y[2] /\ x[3] <= y[3]

\* isinstance(value, cls): bool is a subclass of int
IsInstance(value, cls) ==
  \/ value.type = cls
  \/ cls = "int" /\ value.type = "bool"

TYPE_URL_PREFIX == "type.googleapis.com/google.protobuf."

\* The value of the only field of a wrapper message that is not serialized
\* (proto3 leaves out a field that has its default value).
WrapperDefault(name) ==
  CASE name \in {"StringValue", "BytesValue"} -> <<>>
    [] name \in {"Int32Value", "Int64Value", "UInt32Value", "UInt64Value"} ->
         <<0, 0, 0>>
    [] OTHER -> <<0>>

\* SerializeToString of a wrapper message: its fields, as <<number, value>>.
Serialized(name, v) == IF v = WrapperDefault(name) THEN <<>> ELSE <<<<1, v>>>>

\* AnyProto.Pack(message)
Pack(name, payload) ==
  [present |-> TRUE, typeUrl |-> TYPE_URL_PREFIX \o name, value |-> payload]

\* Timestamp.FromDatetime: seconds of the instant from the epoch, an aware
\* datetime being brought to UTC and a naive one taken as UTC, and the
\* nanoseconds of its microsecond; a field that is 0 is not serialized.
FromDatetime(v) ==
  LET seconds == IF v[1] = 1 THEN v[3] - v[2] ELSE v[3]
      nanos == v[4] * 1000
  IN (IF seconds = 0 THEN <<>> ELSE <<<<1, <<seconds>>>>>>)
     \o (IF nanos = 0 THEN <<>> ELSE <<<<2, <<nanos>>>>>>)

Converted(any) == [status |-> "ok", any |-> any, value |-> PyNone]
ConvertFailed(error) ==
  [status |-> error, any |-> [present |-> FALSE, typeUrl |-> "", value |-> <<>>],
   value |-> PyNone]

\* to_any with the test for int placed before the test for bool
ToAnyIntFirst(value) ==
  IF value.type = "NoneType" THEN Converted(Pack("Empty", <<>>))
  ELSE IF IsInstance(value, "str")
  THEN Converted(Pack("StringValue", Serialized("StringValue", value.v)))
  ELSE IF IsInstance(value, "int")
  THEN LET n == IF value.type = "bool" THEN <<0, 0, value.v[1]>> ELSE value.v
       IN IF IntLeq(Int32Min, n) /\ IntLeq(n, Int32Max)
          THEN Converted(Pack("Int32Value", Serialized("Int32Value", n)))
          ELSE IF IntLeq(Int64Min, n) /\ IntLeq(n, Int64Max)
          THEN Converted(Pack("Int64Value", Serialized("Int64Value", n)))
          ELSE ConvertFailed("ValueError")
  ELSE IF IsInstance(value, "float")
  THEN Converted(Pack("DoubleValue", Serialized("DoubleValue", value.v)))
  ELSE IF IsInstance(value, "datetime")
  THEN Converted(Pack("Timestamp", FromDatetime(value.v)))
  ELSE IF IsInstance(value, "bytes") \/ IsInstance(value, "bytearray")
  THEN Converted(Pack("BytesValue", Serialized("BytesValue", value.v)))
  ELSE ConvertFailed("TypeError")

\* to_any: the tests in the order of the code.  Int64Value(value=...)
\* raises ValueError for an integer outside the 64 bits of its field.
ToAny(value) ==
  IF value.type = "NoneType" THEN Converted(Pack("Empty", <<>>))
  ELSE IF IsInstance(value, "str")
  THEN Converted(Pack("StringValue", Serialized("StringValue", value.v)))
  ELSE IF IsInstance(value, "bool")
  THEN Converted(Pack("BoolValue", Serialized("BoolValue", value.v)))
  ELSE IF IsInstance(value, "int")
  THEN IF IntLeq(Int32Min, value.v) /\ IntLeq(value.v, Int32Max)
       THEN Converted(Pack("Int32Value", Serialized("Int32Value", value.v)))
       ELSE IF IntLeq(Int64Min, value.v) /\ IntLeq(value.v, Int64Max)
       THEN Converted(Pack("Int64Value", Serialized("Int64Value", value.v)))
       ELSE ConvertFailed("ValueError")
  ELSE IF IsInstance(value, "float")
  THEN Converted(Pack("DoubleValue", Serialized("DoubleValue", value.v)))
  ELSE IF IsInstance(value, "datetime")
  THEN Converted(Pack("Timestamp", FromDatetime(value.v)))
  ELSE IF IsInstance(value, "bytes")
  THEN Converted(Pack("BytesValue", Serialized("BytesValue", value.v)))
  ELSE IF IsInstance(value, "bytearray")
  THEN Converted(Pack("BytesValue", Serialized("BytesValue", value.v)))
  ELSE ConvertFailed("TypeError")

NoAny == [present |-> FALSE, typeUrl |-> "", value |-> <<>>]
Unwrapped(value) == [status |-> "ok", any |-> NoAny, value |-> value]

\* The value of field num of a serialized message, or its default.
FieldOf(payload, num, default) ==
  IF \E i \in 1..Len(payload) : payload[i][1] = num
  THEN payload[CHOOSE i \in 1..Len(payload) : payload[i][1] = num][2]
  ELSE default

\* Unpack that gives nothing for a field that was not serialized
UnpackNoDefault(name, payload) == FieldOf(payload, 1, <<>>)

\* any_proto.Unpack(wrapper); wrapper.value
Unpack(name, payload) == FieldOf(payload, 1, WrapperDefault(name))

\* any_proto.Unpack(ts); ts.ToDatetime(): the naive datetime of the instant
\* in UTC, to the microsecond.
ToDatetime(payload) ==
  LET seconds == FieldOf(payload, 1, <<0>>)[1]
      nanos == FieldOf(payload, 2, <<0>>)[1]
  IN <<0, 0, seconds, nanos \div 1000>>

\* from_any where a marker that is not known gives None
FromAnyLenient(any) ==
  IF ~any.present \/ any.typeUrl = "" THEN Unwrapped(PyNone)
  ELSE IF any.typeUrl = TYPE_URL_PREFIX \o "StringValue"
  THEN Unwrapped(PyValue("str", Unpack("StringValue", any.value)))
  ELSE IF any.typeUrl \in {TYPE_URL_PREFIX \o "DoubleValue",
                           TYPE_URL_PREFIX \o "FloatValue"}
  THEN Unwrapped(PyValue("float", Unpack("DoubleValue", any.value)))
  ELSE IF any.typeUrl \in {TYPE_URL_PREFIX \o "Int64Value",
                           TYPE_URL_PREFIX \o "Int32Value",
                           TYPE_URL_PREFIX \o "UInt64Value",
                           TYPE_URL_PREFIX \o "UInt32Value"}
  THEN Unwrapped(PyValue("int", Unpack("Int64Value", any.value)))
  ELSE IF any.typeUrl = TYPE_URL_PREFIX \o "BoolValue"
  THEN Unwrapped(PyValue("bool", Unpack("BoolValue", any.value)))
  ELSE IF any.typeUrl = TYPE_URL_PREFIX \o "Timestamp"
  THEN Unwrapped(PyValue("datetime", ToDatetime(any.value)))
  ELSE IF any.typeUrl = TYPE_URL_PREFIX \o "BytesValue"
  THEN Unwrapped(PyValue("bytes", Unpack("BytesValue", any.value)))
  ELSE Unwrapped(PyNone)

\* from_any: None, or an empty type_url, gives None; then the marker is
\* compared with each of the eleven it knows, in the order of the code.
FromAny(any) ==
  IF ~any.present \/ any.typeUrl = "" THEN Unwrapped(PyNone)
  ELSE IF any.typeUrl = TYPE_URL_PREFIX \o "Empty" THEN Unwrapped(PyNone)
  ELSE IF any.typeUrl = TYPE_URL_PREFIX \o "StringValue"
  THEN Unwrapped(PyValue("str", Unpack("StringValue", any.value)))
  ELSE IF any.typeUrl = TYPE_URL_PREFIX \o "DoubleValue"
  THEN Unwrapped(PyValue("float", Unpack("DoubleValue", any.value)))
  ELSE IF any.typeUrl = TYPE_URL_PREFIX \o "FloatValue"
  THEN Unwrapped(PyValue("float", Unpack("FloatValue", any.value)))
  ELSE IF any.typeUrl = TYPE_URL_PREFIX \o "Int64Value"
  THEN Unwrapped(PyValue("int", Unpack("Int64Value", any.value)))
  ELSE IF any.typeUrl = TYPE_URL_PREFIX \o "Int32Value"
  THEN Unwrapped(PyValue("int", Unpack("Int32Value", any.value)))
  ELSE IF any.typeUrl = TYPE_URL_PREFIX \o "UInt64Value"
  THEN Unwrapped(PyValue("int", Unpack("UInt64Value", any.value)))
  ELSE IF any.typeUrl = TYPE_URL_PREFIX \o "UInt32Value"
  THEN Unwrapped(PyValue("int", Unpack("UInt32Value", any.value)))
  ELSE IF any.typeUrl = TYPE_URL_PREFIX \o "BoolValue"
  THEN Unwrapped(PyValue("bool", Unpack("BoolValue", any.value)))
  ELSE IF any.typeUrl = TYPE_URL_PREFIX \o "Timestamp"
  THEN Unwrapped(PyValue("datetime", ToDatetime(any.value)))
  ELSE IF any.typeUrl = TYPE_URL_PREFIX \o "BytesValue"
  THEN Unwrapped(PyValue("bytes", Unpack("BytesValue", any.value)))
  ELSE ConvertFailed("ValueError")

\* The values converted: of every class to_any tests and of one it does
\* not, with the integers on both sides of the bounds of 32 and 64 bits.
PyIntegers ==
  {<<0, 0, 0>>, <<0, 0, 1>>, <<-1, 2147483647, 2147483647>>,
   Int32Max, <<0, 1, 0>>, Int32Min, <<-1, 2147483646, 2147483647>>,
   <<0, 5, 7>>, <<1, 0, 0>>, <<-1, 0, 3>>, Int64Max, Int64Min,
   <<2, 0, 0>>, <<-3, 2147483647, 2147483647>>}

PyDatetimes ==
  {<<aware, IF aware = 1 THEN offset ELSE 0, seconds, micro>> :
     aware \in {0, 1}, offset \in {0, 3600, -19800},
     seconds \in {-1, 0, 1, 86400}, micro \in {0, 1, 999999}}

PyValues ==
  {PyNone, PyValue("list", <<>>)}
  \cup {PyValue("str", s) : s \in {<<>>, <<97>>, <<97, 233>>}}
  \cup {PyValue("bool", b) : b \in {<<0>>, <<1>>}}
  \cup {PyValue("int", n) : n \in PyIntegers}
  \cup {PyValue("float", f) : f \in {<<0>>, <<1>>, <<2>>}}
  \cup {PyValue("datetime", d) : d \in PyDatetimes}
  \cup {PyValue(t, b) : t \in {"bytes", "bytearray"},
                        b \in {<<>>, <<0>>, <<1, 255>>}}

\* The markers of the eleven variants from_any knows
KnownMarkers ==
  {"Empty", "StringValue", "DoubleValue", "FloatValue", "Int64Value",
   "Int32Value", "UInt64Value", "UInt32Value", "BoolValue", "Timestamp",
   "BytesValue"}

\* The messages decoded: those to_any makes, the wrappers to_any never
\* makes, no message, a message without marker, and markers from_any does
\* not know (another message, another prefix, another case).
AnyValues ==
  {ToAny(v).any : v \in {x \in PyValues : ToAny(x).status = "ok"}}
  \cup {Pack(name, Serialized(name, n)) :
          name \in {"UInt32Value", "UInt64Value"},
          n \in {<<0, 0, 0>>, <<0, 1, 2147483647>>}}
  \cup {Pack("FloatValue", Serialized("FloatValue", f)) : f \in {<<0>>, <<1>>}}
  \cup {NoAny, [present |-> TRUE, typeUrl |-> "", value |-> <<>>]}
  \cup {[present |-> TRUE, typeUrl |-> u, value |-> p] :
          u \in {TYPE_URL_PREFIX \o "Duration",
                 "example.com/google.protobuf.StringValue",
                 "type.googleapis.com/google.protobuf.stringvalue",
                 "StringValue"},
          p \in {<<>>, <<<<1, <<97>>>>>>}}

ConverterInputs ==
  {[op |-> "input", kind |-> k, n |-> 0, buf |-> v, out |-> NoOutput] :
     k \in {"to_any", "round_trip"}, v \in PyValues}
  \cup {[op |-> "input", kind |-> "from_any", n |-> 0, buf |-> a,
         out |-> NoOutput] : a \in AnyValues}

\* to_any(value)
ToAnyCall ==
  /\ wire.op = "input" /\ wire.kind = "to_any"
  /\ wire' = [wire EXCEPT !.op = "done", !.out = ToAny(wire.buf)]
  /\ WireUnchanged

\* from_any(any_proto)
FromAnyCall ==
  /\ wire.op = "input" /\ wire.kind = "from_any"
  /\ wire' = [wire EXCEPT !.op = "done", !.out = FromAny(wire.buf)]
  /\ WireUnchanged

\* from_any(to_any(value)); an exception of to_any is the outcome.
RoundTripCall ==
  /\ wire.op = "input" /\ wire.kind = "round_trip"
  /\ LET any == ToAny(wire.buf)
     IN wire' = [wire EXCEPT !.op = "done",
                             !.out = IF any.status = "ok"
                                     THEN FromAny(any.any) ELSE any]
  /\ WireUnchanged

\* =================================================================
\* HAClient.download_replica (ha_client.py)
\* =================================================================
MaxChunks == 3

\* The data of the responses a Download stream may carry.
ChunkData == {<<>>, <<1>>, <<2, 3>>}
Streams == UNION {[1..k -> ChunkData] : k \in 0..MaxChunks}

\* download_replica never passes the existence test
SkipsDownloadNever(override, exists) == FALSE

\* `if not override and os.path.exists(file_path): return`
SkipsDownload(override, exists) == ~override /\ exists

\* One call of download_replica: the target file (exists, file) and what it
\* was when the call started (had, old), the responses the server will
\* send (stream) and all of them (sent), the chunks list, and the Download
\* RPCs issued.
Downloads ==
  {[op |-> "download", pc |-> "idle", override |-> o, exists |-> e, had |-> e,
    file |-> IF e THEN <<9, 9>> ELSE <<>>, old |-> IF e THEN <<9, 9>> ELSE <<>>,
    stream |-> s, sent |-> s, chunks |-> <<>>, downloads |-> 0] :
     o \in BOOLEAN, e \in BOOLEAN, s \in Streams}

DownloadUnchanged ==
  UNCHANGED <<mgrVars, routeVars, mInstance, mInitialized, mObjects, lastAcq,
              wire>>

\* download_replica up to its return, or to the first wait on the response
\* stream (_ensure_stub and _get_metadata do not suspend).
DownloadCall ==
  /\ rpc.pc = "idle"
  /\ rpc' = IF SkipsDownload(rpc.override, rpc.exists)
            THEN [rpc EXCEPT !.pc = "returned"]
            ELSE [rpc EXCEPT !.pc = "stream", !.downloads = @ + 1]
  /\ DownloadUnchanged

\* async for response in ...: chunks.append(response.data)
DownloadChunk ==
  /\ rpc.pc = "stream" /\ rpc.stream # <<>>
  /\ rpc' = [rpc EXCEPT !.chunks = Append(@, Head(rpc.stream)),
                        !.stream = Tail(@)]
  /\ DownloadUnchanged

\* The stream fails: the exception leaves download_replica.
DownloadFailed ==
  /\ rpc.pc = "stream"
  /\ rpc' = [rpc EXCEPT !.pc = "raised"]
  /\ DownloadUnchanged

\* The stream ends: open(file_path, "wb") and one write per chunk.
DownloadWritten ==
  /\ rpc.pc = "stream" /\ rpc.stream = <<>>
  /\ rpc' = [rpc EXCEPT !.pc = "returned", !.exists = TRUE,
                        !.file = Concat(rpc.chunks)]
  /\ DownloadUnchanged

\* ------------------------------------------------------- specifications
\* Every load() starts at most one update task and one loop per replica file.
TaskIds == 1..MaxCalls
LoopIds == 1..(MaxCalls * Cardinality(ReplicaFiles))

\* Spec: up to MaxCalls tasks call load() and close() in any order and
\* overlap, beside the background tasks, on a stream that delivers nothing.
Init == MgrInit /\ RouteIdleInit /\ ExtIdleInit

Next ==
  \/ \E c \in 1..MaxCalls : LoadNext(c) \/ CloseNext_(c)
  \/ \E t \in TaskIds : UpdaterNext(t)
  \/ \E l \in LoopIds : QuietLoopNext(l)

Spec == Init /\ [][Next]_vars

\* SpecLive: Spec where every background task goes on: a pull ends within
\* its timeout and a sleep within its delay, so a step of a consumption
\* loop or of the refresh task that stays possible is taken.  Nothing is
\* assumed of the callers of load() and close().
SpecLive ==
  /\ Init /\ [][Next]_vars
  /\ \A l \in LoopIds : WF_vars(QuietLoopNext(l))
  /\ \A t \in TaskIds : WF_vars(UpdaterNext(t))

\* SpecSeq: the calls of Spec made one after another: load() and close() are
\* called only when no earlier call is still in progress, beside the
\* background tasks.
NoCallRunning ==
  \A d \in 1..MaxCalls : calls[d].pc \in {"idle", "done", "raised"}

NextSeq ==
  \/ \E c \in 1..MaxCalls : NoCallRunning /\ LoadStart(c)
  \/ \E c \in 1..MaxCalls : NoCallRunning /\ CloseStart(c)
  \/ \E c \in 1..MaxCalls :
       \/ LoadConnected(c)
       \/ \E ok \in BOOLEAN : LoadSubscribed(c, ok)
       \/ CloseTaskDone(c)
       \/ CloseUnsubscribed(c)
       \/ CloseUnsubscribeFailed(c)
       \/ CloseConnClosed(c)
  \/ \E t \in TaskIds : UpdaterNext(t)
  \/ \E l \in LoopIds : QuietLoopNext(l)

SpecSeq == Init /\ [][NextSeq]_vars

\* SpecBatch: up to MaxLoads + 1 calls of load() and close(), overlapping,
\* on a stream that delivers up to MaxMsgs messages: close() runs beside
\* batches in flight.
NextBatch ==
  \/ \E c \in 1..(MaxLoads + 1) : LoadNext(c) \/ CloseNext_(c)
  \/ \E t \in TaskIds : UpdaterNext(t)
  \/ \E l \in LoopIds : LoopNext(l)

SpecBatch == Init /\ [][NextBatch]_vars

\* SpecMsg: up to MaxLoads calls of load(), and a stream that delivers up to
\* MaxMsgs messages to the consumption loops beside the refresh task.
NextMsg ==
  \/ \E c \in 1..MaxLoads : LoadNext(c)
  \/ \E t \in TaskIds : UpdaterNext(t)
  \/ \E l \in LoopIds : LoopNext(l)

SpecMsg == Init /\ [][NextMsg]_vars

\* SpecSingleton: the manager is acquired any number of times, before and
\* between the steps of load() and close() on it.
InitSingleton == MgrInit /\ RouteIdleInit /\ ClassInit

NextSingleton ==
  \/ Acquire
  \/ \E c \in SingletonCalls : lastAcq # NoId /\ LoadNext(c)
  \/ \E c \in SingletonCalls : lastAcq # NoId /\ CloseNext_(c)
  \/ \E t \in TaskIds : UpdaterNext(t)
  \/ \E l \in LoopIds : QuietLoopNext(l)

SpecSingleton == InitSingleton /\ [][NextSingleton]_vars

\* SpecClient: one client makes remote calls, one after the other.
SpecClient == Init /\ [][ClientNext]_vars

\* SpecWire: the codec functions, each applied once to an input drawn from
\* WireInputs.
InitWire ==
  /\ MgrInit /\ RouteIdleInit
  /\ mInstance = 1 /\ mInitialized = TRUE /\ mObjects = 1
  /\ lastAcq = NoId /\ rpc = NoRpc
  /\ wire \in WireInputs

NextWire ==
  \/ VarintRoundTrip
  \/ NewQueryResponse
  \/ NestedResultSet
  \/ NestedRow
  \/ NewDownloadResponse
  \/ NewReplicationIDsResponse

SpecWire == InitWire /\ [][NextWire]_vars

\* SpecAny: to_any, from_any and their composition, each applied once to
\* an input drawn from ConverterInputs.
InitAny ==
  /\ MgrInit /\ RouteIdleInit
  /\ mInstance = 1 /\ mInitialized = TRUE /\ mObjects = 1
  /\ lastAcq = NoId /\ rpc = NoRpc
  /\ wire \in ConverterInputs

NextAny == ToAnyCall \/ FromAnyCall \/ RoundTripCall

SpecAny == InitAny /\ [][NextAny]_vars

\* SpecDownload: one call of download_replica.
InitDownload ==
  /\ MgrInit /\ RouteIdleInit
  /\ mInstance = 1 /\ mInitialized = TRUE /\ mObjects = 1
  /\ lastAcq = NoId /\ wire = NoWire
  /\ rpc \in Downloads

NextDownload ==
  DownloadCall \/ DownloadChunk \/ DownloadFailed \/ DownloadWritten

SpecDownload == InitDownload /\ [][NextDownload]_vars

\* SpecCalls: up to MaxCalls calls outstanding on one client, answered by a
\* server whose txseq never moves back.
InitCalls ==
  /\ MgrInit /\ RouteIdleInit
  /\ mInstance = 1 /\ mInitialized = TRUE /\ mObjects = 1
  /\ lastAcq = NoId /\ wire = NoWire
  /\ rpc = NoCalls

NextCalls ==
  \E i \in 1..MaxCalls :
    \/ SendQuerySent(i)
    \/ \E bump \in {0, 1} : ServerResponds(i, bump)
    \/ SendQueryResponse(i)
    \/ SendQueryFailed(i)

SpecCalls == InitCalls /\ [][NextCalls]_vars

\* =================================================================
\* Properties
\* =================================================================

\* ---------------------------------------------------------------- C1
\* C1: is_replica_updated(name, required_seq) returns true exactly when
\* get_replica(name) finds a replica whose current txseq is >= required_seq,
\* and returns false (a boolean, never an exception) in every other case,
\* a name that is not found included.
C1_IsReplicaUpdated ==
  [][\A name \in LookupNames, seq \in 0..(MaxSeq + 1) :
       CheckUpdated(name, seq) =>
         /\ lastCheck'.result \in BOOLEAN
         /\ lastCheck'.result <=>
              (/\ GetReplica(replicas, name).found
               /\ GetReplica(replicas, name).txseq >= seq)]_vars

\* A check of a registered replica at exactly its sequence number is true.
C1_Witness ==
  /\ lastCheck.called /\ lastCheck.result
  /\ lastCheck.name \in DOMAIN replicas
  /\ lastCheck.seq > 0
  /\ replicas[lastCheck.name].txseq = lastCheck.seq

\* ---------------------------------------------------------------- C2
\* The replica the manager finds by the client's replication id exists and
\* is at or past the client's last-known remote sequence number.
C2_UpToDate ==
  /\ GetReplica(replicas, cRepId).found
  /\ GetReplica(replicas, cRepId).txseq >= cTxseq

\* C2: query() and run() execute a statement on the local handle exactly
\* when the statement passes the lexical read-only check, the connection has
\* a local handle and a manager, and the manager reports the replica up to
\* date at the moment of the decision; every other statement is sent to the
\* server.
C2_ReadRouting ==
  [][\A i \in 1..Len(Statements) :
       (RouteQuery(i) \/ RouteRun(i)) =>
         IF Statements[i].lexRead /\ cEmbedded # "None" /\ cManager /\ C2_UpToDate
         THEN lastRoute'.target = "local" /\ lastRoute'.handle = cEmbedded
         ELSE lastRoute'.target = "remote" /\ lastRoute'.pending]_vars

\* A select in mixed case with whitespace around it runs locally on a client
\* that has seen a remote sequence number.
C2_Witness ==
  /\ lastRoute.op \in {"query", "run"}
  /\ lastRoute.target = "local"
  /\ lastRoute.sql = 2
  /\ cTxseq > 0

\* ---------------------------------------------------------------- C3
\* C3: a statement that modifies data is never executed on the local
\* handle, whatever its leading keyword, through query(), run() or execute().
C3_WritesRemote ==
  IF lastRoute.op = "none" THEN TRUE
  ELSE Statements[lastRoute.sql].modifies => lastRoute.target = "remote"

\* ---------------------------------------------------------------- C4
\* C4: no step of message application or of the refresh task lowers the
\* txseq of a replica.
C4_TxseqNeverDecreases ==
  [][\A n \in DOMAIN replicas \cap DOMAIN replicas' :
       replicas'[n].txseq >= replicas[n].txseq]_vars

\* ---------------------------------------------------------------- C5
\* A close() call completes in this step.
CloseCompletes(c) ==
  /\ calls[c].pc # "done"
  /\ calls'[c].kind = "close" /\ calls'[c].pc = "done"

\* C5: when close() completes, the update task is cancelled and cleared,
\* every subscription is unsubscribed and the subscription registry is
\* empty, the replica registry is empty with every handle closed, and the
\* connection is closed and cleared.
C5_CloseReleasesAll ==
  [][\A c \in 1..MaxCalls :
       CloseCompletes(c) =>
         /\ updateTask' = NoId
         /\ \A t \in DOMAIN utasks' : utasks'[t].cancel \/ utasks'[t].st = "done"
         /\ subs' = <<>>
         /\ \A l \in DOMAIN loops' : ~loops'[l].active
         /\ replicas' = EmptyReg
         /\ natsConn' = NoId]_vars

\* ---------------------------------------------------------------- C6
\* C6: a close() that starts after a close() has completed, with no step
\* of a load() in between, completes at once: it awaits nothing (no
\* unsubscribe, no connection close), closes no handle, changes nothing in
\* the manager, and does not raise.
C6_CloseIdempotent ==
  \A c \in 1..MaxCalls :
    calls[c].kind = "close" /\ calls[c].after =>
      /\ calls[c].pc = "done"
      /\ calls[c].closed = 0
      /\ ~calls[c].changed

\* A second close() after a close() that released a loaded manager.
C6_Witness ==
  \E c, d \in 1..MaxCalls :
    /\ c # d
    /\ calls[c].kind = "close" /\ calls[c].after /\ calls[c].pc = "done"
    /\ calls[d].kind = "close" /\ calls[d].pc = "done" /\ calls[d].closed > 0
    /\ calls[d].changed

\* ---------------------------------------------------------------- C7
\* C7: a consumption loop ends only when close() has been called.
C7_LoopEndsOnlyOnClose ==
  \A l \in DOMAIN loops : loops[l].pc = "done" => nCloses > 0

\* ---------------------------------------------------------------- C8
\* The loops of replica n that are consuming: past `while self._running`,
\* fetching, acknowledging or backing off.
LiveLoops(n) ==
  {l \in DOMAIN loops : loops[l].name = n /\ loops[l].pc \in {"fetch", "ack", "sleep"}}

\* C8: each replica name has at most one live consumption loop.
C8_OneLoopPerReplica ==
  \A n \in FileNames : Cardinality(LiveLoops(n)) <= 1

\* ---------------------------------------------------------------- C9
\* C9: a close() that found an update task closes handles only once that
\* task has finished, and the refresh task never reads through a closed
\* handle.
C9_HandlesOutliveRefresh ==
  /\ ~readClosed
  /\ \A c \in 1..MaxCalls :
       calls[c].kind = "close" /\ calls[c].closed > 0 /\ calls[c].task # NoId =>
         utasks[calls[c].task].st = "done"

\* A close() that waited for a sleeping update task and then closed handles.
C9_Witness ==
  \E c \in 1..MaxCalls :
    /\ calls[c].kind = "close" /\ calls[c].closed > 0 /\ calls[c].task # NoId
    /\ utasks[calls[c].task].cancel

\* --------------------------------------------------------------- C10
\* A call that is between two of its registry mutations: a load() that has
\* registered a replica and awaits its subscription, a close() that is
\* iterating the subscriptions.
MidMutation(c) == calls[c].pc \in {"subscribe", "unsub"}

\* C10: no two calls are between their registry mutations at once.
C10_MutationsSerialized ==
  \A c, d \in 1..MaxCalls : c # d => ~(MidMutation(c) /\ MidMutation(d))

\* --------------------------------------------------------------- C11
\* C11: get_replica(name) returns the single loaded replica when exactly one
\* is loaded and name is empty; otherwise the replica registered under
\* exactly that name, or not-found when there is none: the empty name finds
\* nothing with zero or with two or more replicas loaded.
C11_GetReplica ==
  \A name \in LookupNames :
    LET r == GetReplica(replicas, name)
    IN IF name = "" /\ Cardinality(DOMAIN replicas) = 1
       THEN /\ r.found
            /\ DOMAIN replicas = {r.name}
            /\ r.txseq = replicas[r.name].txseq
       ELSE IF name \in DOMAIN replicas
       THEN r.found /\ r.name = name /\ r.txseq = replicas[name].txseq
       ELSE r = NoReplica

\* A lookup of the empty name that found the only replica loaded (the check
\* is_replica_updated("", 0) is true exactly when the lookup finds one).
C11_Witness ==
  /\ lastCheck.called /\ lastCheck.name = "" /\ lastCheck.seq = 0
  /\ lastCheck.result
  /\ DOMAIN replicas = {"a.db"}

\* --------------------------------------------------------------- C12
\* C12: after a response, the client's txseq is the response's txseq when
\* that is not zero and is what it was when that is zero, whether or not the
\* response carries an error.
C12_TxseqFromResponse ==
  [][rpc.pc = "sent" /\ rpc'.pc = "response" =>
       cTxseq' = IF rpc'.resp.txseq # 0 THEN rpc'.resp.txseq ELSE cTxseq]_vars

\* A response with an error and txseq 0 arrived at a client that had seen a
\* sequence number, and left it.
C12_Witness ==
  /\ rpc.pc = "response" /\ rpc.resp.error # "" /\ rpc.resp.txseq = 0
  /\ rpc.before > 0 /\ cTxseq = rpc.before

\* --------------------------------------------------------------- C15
\* C15: a response whose error is not empty makes execute_query,
\* execute_update and execute raise with that error as the message, and
\* nothing of the response's payload is returned.
C15_ErrorRaises ==
  rpc.pc = "response" /\ rpc.resp.error # "" =>
    /\ rpc.outcome = "raised"
    /\ rpc.message = rpc.resp.error
    /\ rpc.result = NoResult

\* execute_update got a response with an error beside a payload.
C15_Witness ==
  /\ rpc.op = "execute_update" /\ rpc.pc = "response"
  /\ rpc.resp.error # "" /\ rpc.resp.rowsAffected > 0
  /\ rpc.outcome = "raised"

\* --------------------------------------------------------------- C16
\* C16: every call makes one RPC attempt with one request; an attempt that
\* fails or yields no response makes the call raise, with no second attempt
\* and with the client's txseq as it was.
C16_OneAttemptNoRetry ==
  /\ rpc.pc # "idle" => rpc.attempts = 1 /\ rpc.requests = 1
  /\ rpc.pc \in {"rpcError", "noResponse"} =>
       /\ rpc.outcome = "raised"
       /\ rpc.result = NoResult
       /\ cTxseq = rpc.before

\* A call failed in transport on a client that had seen a sequence number.
C16_Witness ==
  /\ rpc.pc = "rpcError" /\ rpc.outcome = "raised"
  /\ rpc.attempts = 1 /\ cTxseq > 0

\* --------------------------------------------------------------- C13
\* C13: when pull_subscribe fails for a file, nothing is propagated: the
\* replica stays registered as it was (handle open, txseq as seeded), the
\* step adds no subscription entry and starts no loop, and load() goes on
\* with the files after it.
C13_SubscribeFailureKept ==
  [][\A c \in 1..MaxCalls :
       LoadSubscribed(c, FALSE) =>
         LET name == Dir[calls[c].idx].name
         IN /\ name \in DOMAIN replicas =>
                 name \in DOMAIN replicas' /\ replicas'[name] = replicas[name]
            /\ subs' = subs
            /\ loops' = loops
            /\ calls'[c].pc \in {"subscribe", "done"}
            /\ calls'[c].idx > calls[c].idx]_vars

\* The only load() is done: a.db is registered with no subscription, after
\* its pull_subscribe failed, and b.db after it is subscribed.
C13_Witness ==
  /\ calls[1].kind = "load" /\ calls[1].pc = "done" /\ calls[2].kind = "none"
  /\ "a.db" \in DOMAIN replicas /\ replicas["a.db"].open
  /\ \A k \in 1..Len(subs) : subs[k].name # "a.db"
  /\ \E k \in 1..Len(subs) : subs[k].name = "b.db"

\* --------------------------------------------------------------- C14
\* C14: a file that fails to open does not end load(): a load() never
\* raises, and when a load() completes with no close() called, every file
\* that opens is registered, the one that does not is not, and the update
\* task is started.
C14_ReplicasFailIndependently ==
  [][\A c \in 1..MaxCalls :
       /\ calls'[c].kind = "load" => calls'[c].pc # "raised"
       /\ (calls'[c].kind = "load" /\ calls[c].pc # "done"
           /\ calls'[c].pc = "done" /\ nCloses' = 0) =>
            /\ ReplicaFiles \subseteq DOMAIN replicas'
            /\ "bad.db" \notin DOMAIN replicas'
            /\ updateTask' # NoId /\ running']_vars

\* A load() is done with b.db, listed after the file that does not open,
\* registered and subscribed.
C14_Witness ==
  /\ calls[1].kind = "load" /\ calls[1].pc = "done" /\ nCloses = 0
  /\ "b.db" \in DOMAIN replicas /\ "bad.db" \notin DOMAIN replicas
  /\ \E k \in 1..Len(subs) : subs[k].name = "b.db"
  /\ updateTask # NoId

\* --------------------------------------------------------------- C17
\* C17: every acquisition returns the one instance; the first makes and
\* initialises it; a later one makes no object and leaves the replica
\* registry, the subscription registry, the update task and the running
\* flag as they are; no second instance is ever made, close() or not.
C17_Singleton ==
  [][Acquire =>
       /\ lastAcq' = mInstance' /\ mInitialized' /\ mObjects' = 1
       /\ mInstance = NoId =>
            /\ replicas' = EmptyReg /\ subs' = <<>>
            /\ updateTask' = NoId /\ ~running'
       /\ mInstance # NoId =>
            /\ mInstance' = mInstance
            /\ UNCHANGED <<replicas, subs, updateTask, running, natsConn,
                           jetstream>>]_vars

\* The instance is acquired while replicas are loaded and the update task
\* runs, after a close() had completed earlier.
C17_Witness ==
  /\ lastAcq = 1 /\ mObjects = 1
  /\ DOMAIN replicas # {} /\ updateTask # NoId /\ running
  /\ \E c \in SingletonCalls : calls[c].kind = "close" /\ calls[c].pc = "done"

\* ----------------------------------------------------------------- C18
\* C18: decoding the bytes _encode_varint(n) produced, from offset 0, gives
\* n back and a count of bytes read equal to the length of the encoding;
\* the last byte of the encoding has its high bit clear and every earlier
\* byte has it set.
C18_VarintRoundTrip ==
  (wire.op = "done" /\ wire.kind = "varint") =>
    /\ wire.out.msg.value = wire.n
    /\ wire.out.msg.bytesRead = Len(wire.buf)
    /\ Len(wire.buf) >= 1
    /\ wire.buf[Len(wire.buf)] < 128
    /\ \A i \in 1..(Len(wire.buf) - 1) : wire.buf[i] >= 128

\* An integer of five bytes went through the round trip.
C18_Witness ==
  /\ wire.op = "done" /\ wire.kind = "varint"
  /\ Len(wire.buf) = 5
  /\ wire.out.msg.value = wire.n

\* ----------------------------------------------------------------- C19
\* How a decoder reads the field a tag byte opens: as a varint, as a
\* length and that many bytes, or not at all.
FieldKind(kind, tagByte) ==
  LET field == tagByte \div 8
      wt == tagByte % 8
  IN CASE kind = "QueryResponse" ->
            IF field \in {1, 4} /\ wt = 2 THEN "len"
            ELSE IF field \in {2, 3} /\ wt = 0 THEN "varint" ELSE "none"
       [] kind = "ResultSet" ->
            IF field \in {1, 2} /\ wt = 2 THEN "len" ELSE "none"
       [] OTHER -> IF field = 1 /\ wt = 2 THEN "len" ELSE "none"

\* The buffer ends inside a field the decoder reads: inside its varint, or
\* before the bytes its length announces.
RECURSIVE CutMidField(_, _, _)
CutMidField(kind, data, offset) ==
  IF offset >= Len(data) THEN FALSE
  ELSE LET how == FieldKind(kind, data[offset + 1])
           v == DecodeVarint(data, offset + 1)
           start == offset + 1 + v.bytesRead
       IN IF how = "none" THEN FALSE
          ELSE IF ~VarintAt(data, offset + 1) THEN TRUE
          ELSE IF how = "varint" THEN CutMidField(kind, data, start)
          ELSE IF start + v.value > Len(data) THEN TRUE
          ELSE CutMidField(kind, data, start + v.value)

\* C19: a response decoder (QueryResponse, DownloadResponse,
\* ReplicationIDsResponse) given a buffer cut mid-field fails with a parse
\* error and returns no structure.
C19_TruncatedInputFails ==
  ( /\ wire.op = "done"
    /\ wire.kind \in {"QueryResponse", "DownloadResponse",
                      "ReplicationIDsResponse"}
    /\ CutMidField(wire.kind, wire.buf, 0) ) => wire.out.status = "error"

\* ----------------------------------------------------------------- C20
\* The bytes are whole fields of the decoder, one after the other.
RECURSIVE WholeFields(_, _, _)
WholeFields(kind, data, offset) ==
  IF offset >= Len(data) THEN offset = Len(data)
  ELSE LET how == FieldKind(kind, data[offset + 1])
           v == DecodeVarint(data, offset + 1)
           start == offset + 1 + v.bytesRead
       IN IF how = "none" \/ ~VarintAt(data, offset + 1) THEN FALSE
          ELSE IF how = "varint" THEN WholeFields(kind, data, start)
          ELSE WholeFields(kind, data, start + v.value)

\* buf has whole fields up to byte k, and then a tag the decoder does not
\* read: an unknown field, or a known one with another wire type.
StopsAt(kind, buf, k) ==
  /\ WholeFields(kind, SubSeq(buf, 1, k), 0)
  /\ FieldKind(kind, buf[k + 1]) = "none"

SameOutput(a, b) ==
  /\ a.status = b.status
  /\ a.status = "ok" => a.msg = b.msg

\* C20: in each of the five decoders the first tag of an unknown field, or
\* of a known field with an unexpected wire type, ends the parsing: the
\* result is the one of the fields before that tag, whatever follows it.
C20_EagerStop ==
  (wire.op = "done" /\ wire.kind \in Decoders) =>
    \A k \in 0..(Len(wire.buf) - 1) :
      StopsAt(wire.kind, wire.buf, k) =>
        SameOutput(wire.out, Decode(wire.kind, SubSeq(wire.buf, 1, k)))

\* A QueryResponse was decoded from a field, a tag that is not read, and a
\* whole field of another number after it, which was not decoded.
C20_Witness ==
  /\ wire.op = "done" /\ wire.kind = "QueryResponse"
  /\ wire.buf = <<24, 2, 65, 16, 1>>
  /\ StopsAt(wire.kind, wire.buf, 2)
  /\ wire.out.status = "ok"
  /\ wire.out.msg.txseq = 2
  /\ wire.out.msg.rowsAffected = 0

\* ----------------------------------------------------------------- C21
\* The marker of the message to_any returned is the one of this wrapper.
Encodes(out, name) ==
  out.status = "ok" /\ out.any.typeUrl = TYPE_URL_PREFIX \o name

InInt32(n) == IntLeq(Int32Min, n) /\ IntLeq(n, Int32Max)
InInt64(n) == IntLeq(Int64Min, n) /\ IntLeq(n, Int64Max)

DecodedType(name) ==
  CASE name = "Empty" -> "NoneType"
    [] name = "StringValue" -> "str"
    [] name \in {"DoubleValue", "FloatValue"} -> "float"
    [] name \in {"Int64Value", "Int32Value", "UInt64Value", "UInt32Value"} -> "int"
    [] name = "BoolValue" -> "bool"
    [] name = "Timestamp" -> "datetime"
    [] name = "BytesValue" -> "bytes"

\* C22: from_any gives None for no message and for an empty marker, a
\* value of the variant's class for each of the eleven markers it knows,
\* and fails with the unsupported-type error, returning nothing, for every
\* other marker.
C22_FromAnyDispatch ==
  (wire.op = "done" /\ wire.kind = "from_any") =>
    LET a == wire.buf
        out == wire.out
    IN /\ (~a.present \/ a.typeUrl = "") =>
            out.status = "ok" /\ out.value = PyNone
       /\ \A name \in KnownMarkers :
            (a.present /\ a.typeUrl = TYPE_URL_PREFIX \o name) =>
              out.status = "ok" /\ out.value.type = DecodedType(name)
       /\ ( /\ a.present /\ a.typeUrl # ""
            /\ \A name \in KnownMarkers : a.typeUrl # TYPE_URL_PREFIX \o name )
          => out.status = "ValueError"

\* A message marked as a Duration was refused.
C22_Witness ==
  /\ wire.op = "done" /\ wire.kind = "from_any"
  /\ wire.buf.typeUrl = TYPE_URL_PREFIX \o "Duration"
  /\ wire.out.status = "ValueError"

\* ----------------------------------------------------------------- C23
\* The instant of a datetime, a naive one being taken as UTC.
Instant(d) == <<IF d[1] = 1 THEN d[3] - d[2] ELSE d[3], d[4]>>

\* a == b for the values of the claim: byte sequences by their bytes,
\* timestamps by their instant, the others by class and content.
SameValue(a, b) ==
  IF a.type \in {"bytes", "bytearray"} /\ b.type \in {"bytes", "bytearray"}
  THEN a.v = b.v
  ELSE IF a.type = "datetime" /\ b.type = "datetime"
  THEN Instant(a.v) = Instant(b.v)
  ELSE a = b

\* C23: from_any(to_any(v)) equals v for None, text, a boolean, an integer
\* of 64 bits, a byte sequence and a timestamp; a boolean comes back as a
\* boolean and an integer as the same integer.
C23_AnyRoundTrip ==
  ( /\ wire.op = "done" /\ wire.kind = "round_trip"
    /\ wire.buf.type \in {"NoneType", "str", "bool", "int", "bytes",
                          "bytearray", "datetime"}
    /\ wire.buf.type = "int" => InInt64(wire.buf.v) )
  => /\ wire.out.status = "ok"
     /\ SameValue(wire.out.value, wire.buf)

\* True came back as True, not as 1.
C23_Witness ==
  /\ wire.op = "done" /\ wire.kind = "round_trip"
  /\ wire.buf = PyValue("bool", <<1>>)
  /\ wire.out.value = PyValue("bool", <<1>>)

\* ----------------------------------------------------------------- C24
FileNamed(name) == Dir[CHOOSE i \in 1..Len(Dir) : Dir[i].name = name]

\* C24: a file shorter than 100 bytes, or whose first 16 bytes are not the
\* SQLite magic, is never registered as a replica, and load() raises no
\* error for it.
C24_OnlySqliteFilesRegistered ==
  /\ \A name \in DOMAIN replicas :
       /\ FileNamed(name).size >= 100
       /\ FileNamed(name).header = "magic16"
  /\ \A c \in DOMAIN calls : calls[c].kind = "load" => calls[c].pc # "raised"

\* A load() went through the directory: it registered a.db and none of the
\* short file, the text file and the file with a wrong sixteenth byte.
C24_Witness ==
  /\ \E c \in DOMAIN calls : calls[c].kind = "load" /\ calls[c].pc = "done"
  /\ nCloses = 0
  /\ "a.db" \in DOMAIN replicas
  /\ {"s.db", "n.txt", "m.db"} \cap DOMAIN replicas = {}

\* ----------------------------------------------------------------- C25
\* C25: when the target file exists and override is not requested,
\* download_replica issues no Download RPC and leaves the file as it was;
\* otherwise a call that returns has written the chunks received, in the
\* order of their arrival, as the content of the file.
C25_DownloadSkipsOrWrites ==
  /\ (rpc.had /\ ~rpc.override) =>
       /\ rpc.downloads = 0
       /\ rpc.file = rpc.old /\ rpc.exists
       /\ rpc.pc \in {"idle", "returned"}
  /\ (rpc.pc = "returned" /\ ~(rpc.had /\ ~rpc.override)) =>
       /\ rpc.downloads = 1
       /\ rpc.exists
       /\ rpc.file = Concat(rpc.sent)

\* A file that existed was overwritten with two chunks or more.
C25_Witness ==
  /\ rpc.pc = "returned" /\ rpc.had /\ rpc.override
  /\ Len(rpc.sent) >= 2
  /\ rpc.file = Concat(rpc.sent) /\ rpc.file # rpc.old

\* ----------------------------------------------------------------- C26
\* C26: a message is acknowledged only after its statement, if it has one,
\* was executed and committed and its sequence number, if it has one, was
\* recorded; a message that failed to apply is not acknowledged.
C26_AckOnlyAfterApplied ==
  \A l \in DOMAIN loops : loops[l].pc = "ack" => loops[l].applied = "ok"

\* ----------------------------------------------------------------- C27
\* Loop l applies message msg in this step: the first of a batch fetched,
\* or the next one of the batch.
Applies(l, msg) ==
  \/ \E n \in 1..Min(FetchBatch, MaxBatch) : LoopFetched(l, n, msg)
  \/ LoopAckedNext(l, msg)

\* C27: a pull that times out is followed by the next pull with no sleep;
\* any other failure of a pull, and a failure to apply a message, are
\* followed by the sleep of the back-off.
C27_BackOffOnFailure ==
  [][\A l \in LoopIds :
       /\ LoopFetchTimeout(l) => loops'[l].pc \in {"fetch", "done"}
       /\ LoopError(l) => loops'[l].pc = "sleep"
       /\ \A msg \in Messages :
            (Applies(l, msg) /\ Applied(M, loops[l].name, msg) = "failed") =>
              loops'[l].pc = "sleep"]_vars

\* ----------------------------------------------------------------- C28
\* C28: a message that fails to apply (payload not parsed, statement not
\* executed or not committed) changes the sequence number of no replica,
\* its own included, even when it carries a txseq; the registry and the
\* persisted statistics stay as they were.
C28_FailedApplyKeepsTxseq ==
  [][\A l \in LoopIds : \A msg \in Messages :
       (Applies(l, msg) /\ Applied(M, loops[l].name, msg) = "failed") =>
         /\ DOMAIN replicas' = DOMAIN replicas
         /\ \A r \in DOMAIN replicas : replicas'[r].txseq = replicas[r].txseq
         /\ stats' = stats]_vars

\* A message failed to apply on a replica, which still has the sequence
\* number it was loaded with.
C28_Witness ==
  \E l \in DOMAIN loops :
    /\ loops[l].pc = "ack" /\ loops[l].applied = "failed"
    /\ msgs >= 1
    /\ loops[l].name \in DOMAIN replicas
    /\ replicas[loops[l].name].txseq = SeedTxseq(InitialStats, loops[l].name)

\* ----------------------------------------------------------------- C29
\* C29: a pass of the refresh task sets the txseq of each registered
\* replica to the newest persisted received_seq when the read gives a row,
\* and leaves it when the read fails or gives none, whatever happened for
\* the other replicas; the task then sleeps again.
C29_RefreshPass ==
  [][\A t \in TaskIds :
       (UpdaterWake(t) /\ ~utasks[t].cancel) =>
         /\ DOMAIN replicas' = DOMAIN replicas
         /\ \A n \in DOMAIN replicas :
              replicas'[n].txseq =
                IF replicas[n].open /\ stats[n] # NoSeq
                THEN stats[n] ELSE replicas[n].txseq
         /\ utasks'[t].st = IF running THEN "sleep" ELSE "done"]_vars

\* The refresh task sleeps between passes, a.db has no row to read and
\* keeps a txseq a message gave it, and b.db has the txseq of its newest
\* row, written by a message.
C29_Witness ==
  /\ \E t \in DOMAIN utasks : utasks[t].st = "sleep"
  /\ {"a.db", "b.db"} \subseteq DOMAIN replicas
  /\ stats["a.db"] = NoSeq /\ replicas["a.db"].txseq = 1
  /\ stats["b.db"] = 2 /\ replicas["b.db"].txseq = 2

\* ----------------------------------------------------------------- C30
\* No background task of the manager runs: every consumption loop and
\* every refresh task has ended.
AllStopped ==
  /\ \A l \in DOMAIN loops : loops[l].pc = "done"
  /\ \A t \in DOMAIN utasks : utasks[t].st = "done"

\* C30: once close() has been called, and for as long as no step of a
\* load() comes after that call, the consumption loops and the refresh
\* task all come to an end.
C30_BackgroundTasksStop ==
  \A c \in 1..MaxCalls :
    (calls[c].kind = "close" /\ calls[c].clean)
      ~> (AllStopped \/ ~calls[c].clean)

\* After a load() that subscribed both replicas and a close() with no step
\* of a load() since, the two loops and the refresh task have ended.
C30_Witness ==
  /\ \E c \in 1..MaxCalls : calls[c].kind = "close" /\ calls[c].clean
  /\ \E d \in 1..MaxCalls : calls[d].kind = "load" /\ calls[d].pc = "done"
  /\ Len(loops) >= 2 /\ Len(utasks) >= 1
  /\ AllStopped

\* --------------------------------------------------------------- C31
\* C31: every name in the subscription registry is a name in the replica
\* registry.
C31_SubscriptionHasReplica ==
  \A k \in 1..Len(subs) : subs[k].name \in DOMAIN replicas

\* --------------------------------------------------------------- C34
\* The update tasks that have not ended.
LiveTasks == {t \in DOMAIN utasks : utasks[t].st # "done"}

\* load() call c returned normally and no close() has been called since.
LoadedSince(c) ==
  /\ calls[c].kind = "load" /\ calls[c].pc = "done"
  /\ \A d \in 1..MaxCalls : d > c => calls[d].kind # "close"

\* C34: with load() and close() called one after another, at most one
\* refresh task is alive at a time, and after a load() that returned
\* normally with no close() called since, the recorded refresh task is
\* alive and the running flag is set.
C34_OneRefreshTask ==
  /\ Cardinality(LiveTasks) <= 1
  /\ \A c \in 1..MaxCalls :
       LoadedSince(c) =>
         /\ updateTask \in LiveTasks
         /\ running

\* load(), close(), load(): the second load() has returned and started the
\* second refresh task, the first having ended.
C34_Witness ==
  /\ LoadedSince(MaxCalls)
  /\ \E d \in 1..MaxCalls : calls[d].kind = "close" /\ calls[d].pc = "done"
  /\ Len(utasks) = 2
  /\ updateTask = 2

\* --------------------------------------------------------------- C32
\* C32: whenever a loop applies a message, the handle it looks up for its
\* replica is open; and when close() has emptied the registry, so that the
\* lookup finds nothing, the message changes no replica and no file.
C32_NoApplyOnClosedHandle ==
  [][\A l \in LoopIds : \A msg \in Messages :
       Applies(l, msg) =>
         IF loops[l].name \in DOMAIN replicas
         THEN replicas[loops[l].name].open
         ELSE replicas' = replicas /\ stats' = stats]_vars

\* A close() has closed handles, and a loop then took a message of a batch
\* in flight and dropped it.
C32_Witness ==
  /\ \E c \in 1..MaxCalls :
       calls[c].kind = "close" /\ calls[c].closed > 0
  /\ \E l \in DOMAIN loops :
       /\ loops[l].pc = "ack" /\ loops[l].applied = "skipped"
       /\ ~loops[l].active
       /\ msgs = MaxMsgs

\* --------------------------------------------------------------- C33
\* C33: with a server whose reported txseq never decreases in the order it
\* produces responses, the client's txseq never decreases, whatever the
\* number of calls outstanding and the order their responses are taken in.
C33_ClientTxseqNeverDecreases ==
  [][cTxseq' >= cTxseq]_vars

\* --------------------------------------------------------------- C35
\* C35: whenever query() or run() executes a read on the local handle, that
\* handle is on the file of the replica get_replica returns for the
\* client's replication id, the one whose txseq the check compared.
C35_HandleOnCheckedReplica ==
  [][\A i \in 1..Len(Statements) :
       ((RouteQuery(i) \/ RouteRun(i)) /\ lastRoute'.target = "local") =>
         cEmbedded = GetReplica(replicas, cRepId).name]_vars
====
